---- MODULE Spec2Model ----
(***************************************************************************)
(* Model of the azrouter integration's write side: the debounced number    *)
(* entities (devices/number.py, devices/device_type_1/number.py,           *)
(* devices/device_type_4/number.py, devices/master/number.py), the         *)
(* service helpers of number.py and the client write calls of api.py,      *)
(* running against a coordinator snapshot that a poll replaces wholesale.  *)
(*                                                                         *)
(* JSON values: a mapping is a function over strings (a missing key is a   *)
(* key outside DOMAIN), a sequence is a TLA+ sequence.  The "settings"     *)
(* member of a device record is tagged, [t |-> "list", v |-> <<...>>] or   *)
(* [t |-> "null"], because the code branches on isinstance(.., list).      *)
(* Proposed numbers are floats in the code; the model gives them in        *)
(* halves (45 stands for 22.5) so that int(round(x)) is a real conversion. *)
(***************************************************************************)
EXTENDS Integers, Sequences, FiniteSets, TLC

\* ---------------------------------------------------------------- bounds
MaxProposals == 3
MaxCalls == 1
MaxItems == 2

\* ------------------------------------------------------- program constants
MIN_TEMP == 20
MAX_TEMP == 85
STEP_TEMP == 5
MIN_MAXPOWER == 100
MAX_MAXPOWER == 3500
STEP_MAXPOWER == 25
DEFAULT_MAX_POWER == 7400
MIN_MANUAL_POWER == 1400
STEP_MANUAL_POWER == 100
MANUAL_MODE_ID == 1
MASTER_TARGET_POWER_MIN == 0 - 1000
MASTER_TARGET_POWER_MAX == 1000
SVC_MIN_MAXPOWER == 100
SVC_MAX_MAXPOWER == 3500
TEMP_MIN == 20
TEMP_MAX == 85
MANUAL_MIN_POWER_W == 1400
SVC_DEFAULT_BREAKER == 16

\* ------------------------------------------------------------ JSON helpers
EmptyDict == [k \in {} |-> TRUE]
Has(d, k) == k \in DOMAIN d
\* d[k] = v of a Python dict
SetKey(d, k, v) == [x \in (DOMAIN d) \cup {k} |-> IF x = k THEN v ELSE d[x]]
\* d.setdefault(k, {}) for a mapping-valued member
SubDict(d, k) == IF Has(d, k) THEN d[k] ELSE EmptyDict
JList(s) == [t |-> "list", v |-> s]
JNull == [t |-> "null"]
\* "x or []" followed by "isinstance(x, list) and x": the entries, or none
ItemsOrNone(d) == IF Has(d, "settings") /\ d.settings.t = "list" THEN d.settings.v ELSE <<>>

\* Optional[int]: <<>> is None, <<v>> is v
None == <<>>
Some(v) == <<v>>

\* int(round(x)) for x = h/2: Python 3 rounds a tie to the even neighbour
PyRound(h) ==
    IF h % 2 = 0 THEN h \div 2
    ELSE LET lo == (h - 1) \div 2 IN IF lo % 2 = 0 THEN lo ELSE lo + 1


\* ------------------------------------------------- snapshots the poll yields
\* One settings[] profile of a boiler (deviceType "1")
BoilerProfile(t, tb, mx) ==
    [power |-> [max |-> mx, targetTemperature |-> t,
                targetTemperatureBoost |-> tb, block_solar_heating |-> 0]]
Boiler(mx, st) ==
    [deviceType |-> "1", common |-> [id |-> 24], power |-> [maxPower |-> mx], settings |-> st]
BoilerBare(mx) ==
    [deviceType |-> "1", common |-> [id |-> 24], power |-> [maxPower |-> mx]]
\* One settings[] profile of a charger (deviceType "4"): its mode list
ChargerProfile(modes) == [charge |-> [mode |-> modes]]
Manual(p) == [id |-> 1, enabled |-> 1, power |-> p]
Timed == [id |-> 2, enabled |-> 0]
Charger(cb, st) ==
    [deviceType |-> "4", common |-> [id |-> 30], charge |-> [circuitBreaker |-> cb], settings |-> st]
ChargerBare(cb) ==
    [deviceType |-> "4", common |-> [id |-> 30], charge |-> [circuitBreaker |-> cb]]

MasterDoc(w) == [regulation |-> [target_power_w |-> w, mode |-> 1], system |-> [name |-> "az"]]

SnapFull ==
    [devices |-> << Boiler(2000, JList(<<BoilerProfile(50, 60, 2000), BoilerProfile(50, 60, 2000)>>)),
                    Charger(16, JList(<<ChargerProfile(<<Timed, Manual(2000)>>),
                                        ChargerProfile(<<Timed, Manual(2000)>>)>>)) >>,
     settings |-> MasterDoc(100)]
\* other values, off the step grid and out of range; one charger profile has no manual mode
SnapOther ==
    [devices |-> << Charger(10, JList(<<ChargerProfile(<<Manual(5050)>>), ChargerProfile(<<Timed>>)>>)),
                    Boiler(1510, JList(<<BoilerProfile(63, 90, 1510), BoilerProfile(63, 90, 1510)>>)) >>,
     settings |-> MasterDoc(2000)]
\* settings[] empty (boiler) or absent (charger); the settings read failed
SnapEmpty ==
    [devices |-> << Boiler(3000, JList(<<>>)), ChargerBare(16) >>,
     settings |-> EmptyDict]
\* settings absent (boiler) or empty (charger)
SnapBare ==
    [devices |-> << BoilerBare(3000), Charger(20, JList(<<>>)) >>,
     settings |-> MasterDoc(0 - 40)]
\* "settings": null
SnapNull ==
    [devices |-> << Boiler(3000, JNull), Charger(10, JNull) >>,
     settings |-> MasterDoc(100)]
\* the devices read failed: empty roster
SnapGone == [devices |-> <<>>, settings |-> MasterDoc(100)]
\* profiles present but without the fields the number entities read
SnapPartial ==
    [devices |-> << Boiler(2000, JList(<<[power |-> [max |-> 2000, block_solar_heating |-> 0]]>>)),
                    Charger(16, JList(<<ChargerProfile(<<Timed>>)>>)) >>,
     settings |-> MasterDoc(100)]

Snapshots == {SnapFull, SnapOther, SnapEmpty, SnapBare, SnapNull, SnapGone, SnapPartial}

\* ------------------------------------------------------------- the entities
Entities == {"base", "temp", "boost", "maxp", "manual", "master"}
DeviceEntities == {"temp", "boost", "maxp", "manual"}
\* self._device_type / self._device_id / self._setting_key as the constructors set them
DeviceTypeOf(e) == IF e = "manual" THEN "4" ELSE "1"
DeviceIdOf(e) == IF e = "manual" THEN 30 ELSE 24
SettingKeyOf(e) == IF e = "temp" THEN "targetTemperature" ELSE "targetTemperatureBoost"

\* proposed values, in halves (the manual entity's stored value also varies
\* with the breaker of the snapshot it is proposed under)
Inputs(e) ==
    CASE e = "temp"   -> {111, 180}
      [] e = "boost"  -> {180}
      [] e = "maxp"   -> {185, 10000}
      [] e = "manual" -> {6101}
      [] e = "master" -> {0 - 3000, 5}
      [] OTHER        -> {45, 110}

\* ------------------------------------------------------ clamps (call sites)
\* DeviceType1TempBase._clamp
ClampTemp(v) ==
    LET a == IF v < MIN_TEMP THEN MIN_TEMP ELSE v
        b == IF a > MAX_TEMP THEN MAX_TEMP ELSE a
        rest == (b - MIN_TEMP) % STEP_TEMP
    IN IF rest # 0 THEN b - rest ELSE b
\* (variant: the ceiling is not applied)
ClampMaxPowerNoCeiling(v) ==
    LET a == IF v < MIN_MAXPOWER THEN MIN_MAXPOWER ELSE v
        rest == (a - MIN_MAXPOWER) % STEP_MAXPOWER
    IN IF rest # 0 THEN a - rest ELSE a
\* DeviceType1MaxPowerNumber._clamp
ClampMaxPower(v) ==
    LET a == IF v < MIN_MAXPOWER THEN MIN_MAXPOWER ELSE v
        b == IF a > MAX_MAXPOWER THEN MAX_MAXPOWER ELSE a
        rest == (b - MIN_MAXPOWER) % STEP_MAXPOWER
    IN IF rest # 0 THEN b - rest ELSE b
\* DeviceType4ManualChargingPowerNumber._clamp
ClampManual(v, maxLimit) ==
    LET a == IF v < MIN_MANUAL_POWER THEN MIN_MANUAL_POWER ELSE v
        b == IF a > maxLimit THEN maxLimit ELSE a
        rest == (b - MIN_MANUAL_POWER) % STEP_MANUAL_POWER
    IN IF rest # 0 THEN b - rest ELSE b
\* the range clamp of AzRouterMasterTargetPowerNumber (no step alignment)
ClampMaster(v) ==
    IF v < MASTER_TARGET_POWER_MIN THEN MASTER_TARGET_POWER_MIN
    ELSE IF v > MASTER_TARGET_POWER_MAX THEN MASTER_TARGET_POWER_MAX ELSE v

\* CIRCUIT_BREAKER_LIMITS.get(breaker)
CIRCUIT_BREAKER_LIMITS == [b \in {10, 16, 24, 32} |->
    CASE b = 10 -> 2300 [] b = 16 -> 3700 [] b = 24 -> 5500 [] OTHER -> 7400]
\* DeviceType4ManualChargingPowerNumber._get_breaker_limit; dev is <<>> (None) or <<record>>
GetBreakerLimit(dev) ==
    IF dev = <<>> THEN DEFAULT_MAX_POWER
    ELSE LET charge == SubDict(dev[1], "charge") IN
         IF ~Has(charge, "circuitBreaker") THEN DEFAULT_MAX_POWER
         ELSE IF charge.circuitBreaker \in DOMAIN CIRCUIT_BREAKER_LIMITS
              THEN CIRCUIT_BREAKER_LIMITS[charge.circuitBreaker]
              ELSE DEFAULT_MAX_POWER

\* --------------------------------------------------------------- locators
\* index of the first roster entry with the given type and id, 0 when none
RECURSIVE ScanFrom(_, _, _, _)
ScanFrom(devs, i, type, id) ==
    IF i > Len(devs) THEN 0
    ELSE IF /\ Has(devs[i], "deviceType") /\ devs[i].deviceType = type
            /\ Has(devs[i], "common") /\ Has(devs[i].common, "id")
            /\ devs[i].common.id = id
         THEN i
         ELSE ScanFrom(devs, i + 1, type, id)
\* <entity>._find_device_from_coordinator: <<>> (None) or <<record>>
FindDeviceFromCoordinator(snap, e) ==
    LET i == ScanFrom(snap.devices, 1, DeviceTypeOf(e), DeviceIdOf(e))
    IN IF i = 0 THEN <<>> ELSE <<snap.devices[i]>>

\* first mode entry with id == MANUAL_MODE_ID, 0 when none
RECURSIVE ManualIndexFrom(_, _)
ManualIndexFrom(modes, i) ==
    IF i > Len(modes) THEN 0
    ELSE IF Has(modes[i], "id") /\ modes[i].id = MANUAL_MODE_ID THEN i
    ELSE ManualIndexFrom(modes, i + 1)

\* entry.get("charge", {}).get("mode") or []
ModesOf(entry) ==
    LET charge == SubDict(entry, "charge") IN IF Has(charge, "mode") THEN charge.mode ELSE <<>>

\* -------------------------------------------- reading a value from a snapshot
\* (variant: a snapshot without the device, its settings or the field clears the value)
UpdateOrClear(e, cur, snap) ==
    LET dev == FindDeviceFromCoordinator(snap, e) IN
    CASE e = "master" ->
            LET reg == SubDict(snap.settings, "regulation") IN
            IF Has(reg, "target_power_w") THEN Some(ClampMaster(reg.target_power_w)) ELSE None
      [] e = "base" -> cur
      [] e = "maxp" ->
            IF dev = <<>> THEN None
            ELSE LET power == SubDict(dev[1], "power") IN
                 IF Has(power, "maxPower") THEN Some(ClampMaxPower(power.maxPower)) ELSE None
      [] e = "manual" ->
            IF dev = <<>> THEN None
            ELSE LET items == ItemsOrNone(dev[1]) IN
                 IF items = <<>> THEN None
                 ELSE LET modes == ModesOf(items[1])
                          m == ManualIndexFrom(modes, 1) IN
                      IF m # 0 /\ Has(modes[m], "power")
                      THEN Some(ClampManual(modes[m].power, GetBreakerLimit(dev)))
                      ELSE None
      [] OTHER ->
            IF dev = <<>> THEN None
            ELSE LET items == ItemsOrNone(dev[1]) IN
                 IF items = <<>> THEN None
                 ELSE LET power == SubDict(items[1], "power") IN
                      IF Has(power, SettingKeyOf(e)) THEN Some(ClampTemp(power[SettingKeyOf(e)])) ELSE None
\* <entity>._update_from_coordinator: the new self._value, given the current one
UpdateFromCoordinator(e, cur, snap) ==
    LET dev == FindDeviceFromCoordinator(snap, e) IN
    CASE e = "master" ->
            LET reg == SubDict(snap.settings, "regulation") IN
            IF Has(reg, "target_power_w") THEN Some(ClampMaster(reg.target_power_w)) ELSE None
      [] e = "base" -> cur
      [] e = "maxp" ->
            IF dev = <<>> THEN cur
            ELSE LET power == SubDict(dev[1], "power") IN
                 IF Has(power, "maxPower") THEN Some(ClampMaxPower(power.maxPower)) ELSE cur
      [] e = "manual" ->
            IF dev = <<>> THEN cur
            ELSE LET items == ItemsOrNone(dev[1]) IN
                 IF items = <<>> THEN cur
                 ELSE LET modes == ModesOf(items[1])
                          m == ManualIndexFrom(modes, 1) IN
                      IF m # 0 /\ Has(modes[m], "power")
                      THEN Some(ClampManual(modes[m].power, GetBreakerLimit(dev)))
                      ELSE cur
      [] OTHER ->
            IF dev = <<>> THEN cur
            ELSE LET items == ItemsOrNone(dev[1]) IN
                 IF items = <<>> THEN cur
                 ELSE LET power == SubDict(items[1], "power") IN
                      IF Has(power, SettingKeyOf(e)) THEN Some(ClampTemp(power[SettingKeyOf(e)])) ELSE cur
\* (The manual entity also stores the breaker limit in _attr_native_max_value,
\* for display; no code reads it back, every clamp recomputes the limit from
\* the snapshot, so the attribute is not part of the state here.)

\* ------------------------------------------- patch builders of the entities
\* Each yields [res |-> "post", body |-> the record handed to
\* async_post_device_settings] or [res |-> "exc"] when the code raises.
TwoEmptyPower == << [power |-> EmptyDict], [power |-> EmptyDict] >>
\* s.setdefault("power", {})[k] = v
PatchPower(entry, k, v) == SetKey(entry, "power", SetKey(SubDict(entry, "power"), k, v))
PatchAll(items, k, v) == [i \in DOMAIN items |-> PatchPower(items[i], k, v)]

\* DeviceType1TempBase._send_later, from the deepcopy to the post
TempPayload(dev, key, v) ==
    LET items == ItemsOrNone(dev)
        list == IF items = <<>> THEN TwoEmptyPower ELSE items
    IN [res |-> "post", body |-> SetKey(dev, "settings", JList(PatchAll(list, key, v)))]

\* DeviceType1MaxPowerNumber._send_later, from the deepcopy to the post
MaxPowerPayload(dev, v) ==
    LET withRoot == SetKey(dev, "power", SetKey(SubDict(dev, "power"), "maxPower", v))
        items == ItemsOrNone(dev)
        list == IF items = <<>> THEN TwoEmptyPower ELSE items
    IN [res |-> "post", body |-> SetKey(withRoot, "settings", JList(PatchAll(list, "max", v)))]

\* the manual entry of one profile set to v, appended when the profile has none
PatchManual(entry, v) ==
    LET charge == SubDict(entry, "charge")
        modes == IF Has(charge, "mode") THEN charge.mode ELSE <<>>
        m == ManualIndexFrom(modes, 1)
        modes2 == IF m = 0
                  THEN Append(modes, [id |-> MANUAL_MODE_ID, enabled |-> 1, power |-> v])
                  ELSE [modes EXCEPT ![m] = SetKey(@, "power", v)]
    IN SetKey(entry, "charge", SetKey(charge, "mode", modes2))
\* DeviceType4ManualChargingPowerNumber._send_later, from the deepcopy to the post:
\* setdefault returns the stored null, and null has no extend()
ManualPayload(dev, v) ==
    IF Has(dev, "settings") /\ dev.settings.t # "list" THEN [res |-> "exc"]
    ELSE LET items == ItemsOrNone(dev)
             list == IF items = <<>>
                     THEN << [charge |-> [mode |-> <<>>]], [charge |-> [mode |-> <<>>]] >>
                     ELSE items
         IN [res |-> "post",
             body |-> SetKey(dev, "settings", JList([i \in DOMAIN list |-> PatchManual(list[i], v)]))]

\* what an entity's _send_later builds for the located device
EntityPayload(e, dev, v) ==
    CASE e = "maxp"   -> MaxPowerPayload(dev, v)
      [] e = "manual" -> ManualPayload(dev, v)
      [] OTHER        -> TempPayload(dev, SettingKeyOf(e), v)

\* AzRouterClient.async_set_master_target_power, after the settings read
\* returned doc: the whole document with regulation.target_power_w set
MasterPayload(doc, v) ==
    SetKey(doc, "regulation", SetKey(SubDict(doc, "regulation"), "target_power_w", ClampMaster(v)))

\* (variant: the patch is applied to the record itself, not to a copy)
AliasKept(src, patched) == patched
\* copy.deepcopy(x): after the copy is patched, the source still is x
DeepCopyKept(src, patched) == src
\* the snapshot after a write path patched its deep copy of devices[idx]
SnapshotAfterPatch(snap, idx, patched) ==
    [snap EXCEPT !.devices[idx] = DeepCopyKept(snap.devices[idx], patched)]

\* ------------------------------------------ service helpers of number.py
\* Each yields [res, body, val]: res is "post" (body is handed to
\* async_post_device_settings, val is the value written), "skip" (the helper
\* returns without a write) or "raise" (HomeAssistantError).
\* The helpers locate the device with int(common.id) == int(device_id).
FindDeviceForService(snap, type, id) == ScanFrom(snap.devices, 1, type, id)
Skip == [res |-> "skip"]
Raise == [res |-> "raise"]

\* async_service_set_device_type_1_max_power; mp is <<>> (None) or <<int>>
ServiceMaxPower(snap, id, mp) ==
    IF mp = None THEN Skip
    ELSE LET a == IF mp[1] < SVC_MIN_MAXPOWER THEN SVC_MIN_MAXPOWER ELSE mp[1]
             v == IF a > SVC_MAX_MAXPOWER THEN SVC_MAX_MAXPOWER ELSE a
             idx == FindDeviceForService(snap, "1", id)
         IN IF idx = 0 THEN Skip
            ELSE LET dev == snap.devices[idx]
                     withRoot == SetKey(dev, "power", SetKey(SubDict(dev, "power"), "maxPower", v))
                     items == ItemsOrNone(dev)
                     list == IF items = <<>> THEN TwoEmptyPower ELSE items
                 IN [res |-> "post", idx |-> idx, val |-> v,
                     body |-> SetKey(withRoot, "settings", JList(PatchAll(list, "max", v)))]

\* the range clamp of the temperatures helper (no step alignment)
ClampSvcTemp(v) == IF v < TEMP_MIN THEN TEMP_MIN ELSE IF v > TEMP_MAX THEN TEMP_MAX ELSE v
\* "x not in (None, 0)"
Given(x) == x # None /\ x[1] # 0
\* async_service_set_device_type_1_temperatures; t, b are <<>> (None) or <<int>>
ServiceTemperatures(snap, id, t, b) ==
    LET idx == FindDeviceForService(snap, "1", id) IN
    IF idx = 0 THEN Skip
    ELSE LET dev == snap.devices[idx]
             items == ItemsOrNone(dev)
             l1 == IF Given(t) THEN PatchAll(items, "targetTemperature", ClampSvcTemp(t[1])) ELSE items
             l2 == IF Given(b) THEN PatchAll(l1, "targetTemperatureBoost", ClampSvcTemp(b[1])) ELSE l1
         IN IF items = <<>> THEN Skip
            ELSE IF ~Given(t) /\ ~Given(b) THEN Skip
            ELSE [res |-> "post", idx |-> idx,
                  val |-> IF Given(t) THEN ClampSvcTemp(t[1]) ELSE ClampSvcTemp(b[1]),
                  body |-> [deviceType |-> "1",
                            common |-> IF Has(dev, "common") THEN dev.common ELSE [id |-> id],
                            power |-> SubDict(dev, "power"),
                            settings |-> JList(l2)]]

\* CB_TO_MAX_POWER.get(cb), else the largest tabulated value
CB_TO_MAX_POWER == [b \in {10, 16, 24, 32} |->
    CASE b = 10 -> 2300 [] b = 16 -> 3700 [] b = 24 -> 5500 [] OTHER -> 7400]
ServiceBreakerLimit(dev) ==
    LET charge == SubDict(dev, "charge")
        cb == IF Has(charge, "circuitBreaker") THEN charge.circuitBreaker ELSE SVC_DEFAULT_BREAKER
    IN IF cb \in DOMAIN CB_TO_MAX_POWER THEN CB_TO_MAX_POWER[cb] ELSE 7400
\* every mode entry with id 1 of one profile gets power = v
SetManualPower(entry, v) ==
    LET charge == SubDict(entry, "charge")
        modes == IF Has(charge, "mode") THEN charge.mode ELSE <<>>
        modes2 == [i \in DOMAIN modes |->
                     IF Has(modes[i], "id") /\ modes[i].id = 1 THEN SetKey(modes[i], "power", v) ELSE modes[i]]
    IN IF Has(charge, "mode")
       THEN SetKey(entry, "charge", SetKey(charge, "mode", modes2))
       ELSE SetKey(entry, "charge", charge)
HasManualMode(entry) == ManualIndexFrom(ModesOf(entry), 1) # 0
\* async_service_set_device_type_4_manual_power; mp is <<>> (None) or <<int>>
ServiceManualPower(snap, id, mp) ==
    IF mp = None THEN Raise
    ELSE LET idx == FindDeviceForService(snap, "4", id) IN
         IF idx = 0 THEN Raise
         ELSE LET dev == snap.devices[idx]
                  lim == ServiceBreakerLimit(dev)
                  a == IF mp[1] < MANUAL_MIN_POWER_W THEN MANUAL_MIN_POWER_W ELSE mp[1]
                  v == IF a > lim THEN lim ELSE a
                  items == ItemsOrNone(dev)
              IN IF items = <<>> THEN Raise
                 ELSE IF \A i \in DOMAIN items : ~HasManualMode(items[i]) THEN Raise
                 ELSE [res |-> "post", idx |-> idx, val |-> v,
                       body |-> SetKey(dev, "settings",
                                       JList([i \in DOMAIN items |-> SetManualPower(items[i], v)]))]

\* AzRouterClient.async_set_device_type_1_power_setting, after the devices
\* read returned roster: patches the fetched record, not the snapshot
\* (h is the value in halves; int(round(float(value))) is what gets written)
ClientPowerSetting(roster, id, path, h) ==
    LET idx == ScanFrom(roster, 1, "1", id)
        v == PyRound(h) IN
    IF idx = 0 THEN Skip
    ELSE LET dev == roster[idx]
             items == ItemsOrNone(dev)
             power == IF path = "maxPower" THEN SetKey(SubDict(dev, "power"), "maxPower", v)
                      ELSE SubDict(dev, "power")
             list == PatchAll(items, IF path = "maxPower" THEN "max" ELSE path, v)
         IN IF path # "maxPower" /\ items = <<>> THEN Skip
            ELSE [res |-> "post", idx |-> idx, val |-> v,
                  body |-> [deviceType |-> "1",
                            common |-> IF Has(dev, "common") THEN dev.common ELSE [id |-> id],
                            power |-> power,
                            settings |-> JList(list)]]

\* ------------------------------------------------------------------- state
VARIABLES
    active,       \* the number entities added to hass in this run
    data,         \* coordinator.data, the current snapshot
    value,        \* self._value of each entity
    pending,      \* self._pending_value
    tasks,        \* per entity, the debounce tasks it created, oldest first;
                  \* the last one is self._debounce_task
    outcome,      \* how the latest finished _send_later of the entity returned
                  \* ("" since the last proposal): "ok", "err", "nodev", "nopending"
    removed,      \* async_will_remove_from_hass has run
    lastProposed, \* per entity, its latest proposal: <<the value stored, the input
                  \* in halves>>, <<>> before the first (history)
    writes,       \* the POST requests issued, in order: by whom, by which task, the
                  \* value written and the latest proposal at that time (history)
    lastPost,     \* the POST request now in flight with its body, <<>> when there is none
    refreshReqs,  \* calls of coordinator.async_request_refresh() (history)
    probe,        \* the last evaluation of one of the pure helpers (reads, lookups,
                  \* coercions): [op, ...], op = "" before the first
    call,         \* the service call, switch command or client call now running or
                  \* last run: [svc, ids, path, a, b, ph], ph = "idle" before the
                  \* first; all, w0 and r0 keep the ids it resolved to and the
                  \* numbers of writes and refresh requests at its start (history)
    calls,        \* how many of them were started
    appliance     \* <<the documents the appliance holds>> in the specifications
                  \* that follow the appliance, <<>> in the others

vars == <<active, data, value, pending, tasks, outcome, removed,
          lastProposed, writes, lastPost, refreshReqs, call, calls, probe, appliance>>

\* a task is [st, cin, rapid]: st is where its coroutine stands ("sleeping"
\* in asyncio.sleep, "get" in the settings read, "post" in the POST, "done",
\* "cancelled"); cin is where it stood when cancel() reached it; rapid tells
\* that it was created while its predecessor's window had not elapsed (history)
NewTask(ts) == [st |-> "sleeping", cin |-> "",
                rapid |-> ts # <<>> /\ ts[Len(ts)].st = "sleeping"]
Live(t) == t.st \in {"sleeping", "get", "post"}
\* (variant: the previous task is left alone)
CancelNothing(ts) == ts
\* (variant: only a task still in its sleep is cancelled)
CancelIfSleeping(ts) ==
    IF ts # <<>> /\ ts[Len(ts)].st = "sleeping"
    THEN [ts EXCEPT ![Len(ts)] = [@ EXCEPT !.st = "cancelled", !.cin = "sleeping"]]
    ELSE ts
\* if self._debounce_task and not self._debounce_task.done(): self._debounce_task.cancel()
CancelDebounceTask(ts) ==
    IF ts # <<>> /\ Live(ts[Len(ts)])
    THEN [ts EXCEPT ![Len(ts)] = [@ EXCEPT !.st = "cancelled", !.cin = ts[Len(ts)].st]]
    ELSE ts

Init ==
    \* one number entity is exercised, or none and the service layer acts
    /\ active \in {{e} : e \in Entities} \cup {{}}
    \* the setup created the entities from a roster that held their devices
    /\ data \in Snapshots \ {SnapGone}
    /\ pending = [e \in Entities |-> None]
    \* async_added_to_hass loads the first value from the snapshot
    /\ value = [e \in Entities |-> IF e \in active THEN UpdateFromCoordinator(e, None, data) ELSE None]
    /\ tasks = [e \in Entities |-> <<>>]
    /\ outcome = [e \in Entities |-> ""]
    /\ removed = [e \in Entities |-> FALSE]
    /\ lastProposed = [e \in Entities |-> None]
    /\ writes = <<>>
    /\ lastPost = <<>>
    /\ refreshReqs = 0
    /\ call = [svc |-> "", ids |-> <<>>, path |-> "", a |-> <<>>, b |-> <<>>, ph |-> "idle",
               all |-> <<>>, w0 |-> 0, r0 |-> 0]
    /\ calls = 0
    /\ probe = [op |-> ""]
    /\ appliance = <<>>

\* the value async_set_native_value stores for input h (halves)
ProposedValue(e, h, snap) ==
    CASE e = "master" -> ClampMaster(PyRound(h))
      [] e = "maxp"   -> ClampMaxPower(PyRound(h))
      [] e = "manual" -> ClampManual(PyRound(h), GetBreakerLimit(FindDeviceFromCoordinator(snap, e)))
      [] e = "base"   -> h   \* float(self._clamp(value)): kept unrounded, in halves
      [] OTHER        -> ClampTemp(PyRound(h))

\* (variant: the proposal is displayed only once it has been written)
ProposeKeepsDisplay(e, h) ==
    /\ UNCHANGED <<probe, appliance>>
    /\ e \in active /\ ~removed[e]
    /\ Len(tasks[e]) < MaxProposals
    /\ LET v == ProposedValue(e, h, data) IN
        /\ pending' = [pending EXCEPT ![e] = Some(v)]
        /\ lastProposed' = [lastProposed EXCEPT ![e] = <<v, h>>]
        /\ tasks' = [tasks EXCEPT ![e] = Append(CancelDebounceTask(@), NewTask(@))]
        /\ outcome' = [outcome EXCEPT ![e] = ""]
    /\ lastPost' = IF tasks[e] # <<>> /\ tasks[e][Len(tasks[e])].st = "post" THEN <<>> ELSE lastPost
    /\ UNCHANGED <<active, data, value, removed, writes, refreshReqs, call, calls>>
\* <entity>.async_set_native_value(value)
Propose(e, h) ==
    /\ UNCHANGED <<probe, appliance>>
    /\ e \in active /\ ~removed[e]
    /\ Len(tasks[e]) < MaxProposals
    /\ LET v == ProposedValue(e, h, data) IN
        /\ value' = [value EXCEPT ![e] = Some(v)]
        /\ pending' = [pending EXCEPT ![e] = Some(v)]
        /\ lastProposed' = [lastProposed EXCEPT ![e] = <<v, h>>]
        /\ tasks' = [tasks EXCEPT ![e] = Append(CancelDebounceTask(@), NewTask(@))]
        /\ outcome' = [outcome EXCEPT ![e] = ""]
    /\ lastPost' = IF tasks[e] # <<>> /\ tasks[e][Len(tasks[e])].st = "post" THEN <<>> ELSE lastPost
    /\ UNCHANGED <<active, data, removed, writes, refreshReqs, call, calls>>

\* (variant: the task ends after its sleep without sending)
FireStepNoWrite(e, snap, pend) == [to |-> "done", how |-> "nopending", post |-> <<>>]
\* (variant: a task that finds no device posts a record of its own making)
FireStepPostsAnyway(e, snap, pend) ==
    IF pend = None THEN [to |-> "done", how |-> "nopending", post |-> <<>>]
    ELSE IF e = "base" THEN [to |-> "done", how |-> "err", post |-> <<>>]
    ELSE IF e = "master" THEN [to |-> "get", how |-> "", post |-> <<>>]
    ELSE LET dev == FindDeviceFromCoordinator(snap, e) IN
         IF dev = <<>>
         THEN [to |-> "post", how |-> "",
               post |-> <<EntityPayload(e, [deviceType |-> DeviceTypeOf(e),
                                            common |-> [id |-> DeviceIdOf(e)]], pend[1]).body>>]
         ELSE LET p == EntityPayload(e, dev[1], pend[1]) IN
              IF p.res = "exc" THEN [to |-> "done", how |-> "err", post |-> <<>>]
              ELSE [to |-> "post", how |-> "", post |-> <<p.body>>]
\* how a task that leaves its sleep goes on: where it stands after the step
\* (to), how it returned if it did (how), and the POST it issued, if any
FireStep(e, snap, pend) ==
    IF pend = None THEN [to |-> "done", how |-> "nopending", post |-> <<>>]
    ELSE IF e = "base" THEN [to |-> "done", how |-> "err", post |-> <<>>]   \* _async_send_value raises
    ELSE IF e = "master" THEN [to |-> "get", how |-> "", post |-> <<>>]
    ELSE LET dev == FindDeviceFromCoordinator(snap, e) IN
         IF dev = <<>> THEN [to |-> "done", how |-> "nodev", post |-> <<>>]
         ELSE LET p == EntityPayload(e, dev[1], pend[1]) IN
              IF p.res = "exc" THEN [to |-> "done", how |-> "err", post |-> <<>>]
              ELSE [to |-> "post", how |-> "", post |-> <<p.body>>]

\* the appliance once a POST of body to url has reached it: the device record
\* of the body's type and id, or the settings document, is replaced by the body
Received(appl, url, body) ==
    IF appl = <<>> THEN appl
    ELSE IF url = "settings" THEN <<[appl[1] EXCEPT !.settings = body]>>
    ELSE LET i == ScanFrom(appl[1].devices, 1, body.deviceType, body.common.id) IN
         IF i = 0 THEN appl ELSE <<[appl[1] EXCEPT !.devices[i] = body]>>

\* _send_later resumes after asyncio.sleep(_DEBOUNCE_SECONDS): the window elapsed
Fire(e, i) ==
    /\ UNCHANGED probe
    /\ i \in DOMAIN tasks[e]
    /\ tasks[e][i].st = "sleeping"
    /\ LET r == FireStep(e, data, pending[e]) IN
        /\ tasks' = [tasks EXCEPT ![e][i].st = r.to]
        /\ outcome' = [outcome EXCEPT ![e] = IF r.to = "done" THEN r.how ELSE @]
        /\ writes' = IF r.post = <<>> THEN writes
                     ELSE Append(writes, [by |-> e, task |-> i, val |-> pending[e][1],
                                          want |-> lastProposed[e][1]])
        /\ lastPost' = IF r.post = <<>> THEN lastPost
                       ELSE <<[by |-> e, url |-> "device/settings", req |-> pending[e][1],
                               from |-> FindDeviceFromCoordinator(data, e), body |-> r.post[1]]>>
        \* the patch went to a deep copy of the located record
        /\ data' = IF r.post = <<>> THEN data
                   ELSE SnapshotAfterPatch(data, ScanFrom(data.devices, 1, DeviceTypeOf(e), DeviceIdOf(e)),
                                           r.post[1])
        /\ appliance' = IF r.post = <<>> THEN appliance ELSE Received(appliance, "device/settings", r.post[1])
    /\ UNCHANGED <<active, value, pending, removed, lastProposed, refreshReqs, call, calls>>

\* what GET /api/v1/settings can return to async_set_master_target_power:
\* a settings document, or {} for a body that is no JSON mapping
SettingsReads == {MasterDoc(100), MasterDoc(2000), EmptyDict}

\* (variant: a task cancelled during its settings read still goes on to post)
GetReturnsAfterCancel(e, i, doc) ==
    /\ UNCHANGED probe
    /\ i \in DOMAIN tasks[e]
    /\ tasks[e][i].st = "get" \/ (tasks[e][i].st = "cancelled" /\ tasks[e][i].cin = "get")
    /\ appliance' = Received(appliance, "settings", MasterPayload(doc, pending[e][1]))
    /\ tasks' = [tasks EXCEPT ![e][i].st = "post"]
    /\ writes' = Append(writes, [by |-> e, task |-> i, val |-> ClampMaster(pending[e][1]),
                                 want |-> lastProposed[e][1]])
    /\ lastPost' = <<[by |-> e, url |-> "settings", req |-> pending[e][1],
                      from |-> <<doc>>, body |-> MasterPayload(doc, pending[e][1])]>>
    /\ UNCHANGED <<active, data, value, pending, outcome, removed, lastProposed, refreshReqs, call, calls>>
\* the master task's settings read returns doc; the POST of the patched document follows
GetReturns(e, i, doc) ==
    /\ UNCHANGED probe
    /\ i \in DOMAIN tasks[e]
    /\ tasks[e][i].st = "get"
    /\ appliance' = Received(appliance, "settings", MasterPayload(doc, pending[e][1]))
    /\ tasks' = [tasks EXCEPT ![e][i].st = "post"]
    /\ writes' = Append(writes, [by |-> e, task |-> i, val |-> ClampMaster(pending[e][1]),
                                 want |-> lastProposed[e][1]])
    /\ lastPost' = <<[by |-> e, url |-> "settings", req |-> pending[e][1],
                      from |-> <<doc>>, body |-> MasterPayload(doc, pending[e][1])]>>
    /\ UNCHANGED <<active, data, value, pending, outcome, removed, lastProposed, refreshReqs, call, calls>>

\* the settings read raises (transport or HTTP error): caught by except Exception
GetFails(e, i) ==
    /\ UNCHANGED <<probe, appliance>>
    /\ i \in DOMAIN tasks[e]
    /\ tasks[e][i].st = "get"
    /\ tasks' = [tasks EXCEPT ![e][i].st = "done"]
    /\ outcome' = [outcome EXCEPT ![e] = "err"]
    /\ UNCHANGED <<active, data, value, pending, removed, lastProposed, writes, lastPost, refreshReqs, call, calls>>

\* (variant: a failed POST puts the task back into a new window)
PostReturnsRetries(e, i, ok) ==
    /\ UNCHANGED <<probe, appliance>>
    /\ i \in DOMAIN tasks[e]
    /\ tasks[e][i].st = "post"
    /\ tasks' = [tasks EXCEPT ![e][i].st = IF ok THEN "done" ELSE "sleeping"]
    /\ outcome' = [outcome EXCEPT ![e] = IF ok THEN "ok" ELSE "err"]
    /\ lastPost' = <<>>
    /\ UNCHANGED <<active, data, value, pending, removed, lastProposed, writes, refreshReqs, call, calls>>
\* the POST returns (ok) or raises (caught by except Exception, logged)
PostReturns(e, i, ok) ==
    /\ UNCHANGED <<probe, appliance>>
    /\ i \in DOMAIN tasks[e]
    /\ tasks[e][i].st = "post"
    /\ tasks' = [tasks EXCEPT ![e][i].st = "done"]
    /\ outcome' = [outcome EXCEPT ![e] = IF ok THEN "ok" ELSE "err"]
    /\ lastPost' = <<>>
    /\ UNCHANGED <<active, data, value, pending, removed, lastProposed, writes, refreshReqs, call, calls>>

\* (variant: the entity is removed with its task left scheduled)
TeardownKeepsTask(e) ==
    /\ UNCHANGED <<probe, appliance>>
    /\ e \in active /\ ~removed[e]
    /\ removed' = [removed EXCEPT ![e] = TRUE]
    /\ UNCHANGED <<active, data, value, pending, tasks, outcome, lastProposed, writes,
                   lastPost, refreshReqs, call, calls>>
\* <entity>.async_will_remove_from_hass
Teardown(e) ==
    /\ UNCHANGED <<probe, appliance>>
    /\ e \in active /\ ~removed[e]
    /\ tasks' = [tasks EXCEPT ![e] = CancelDebounceTask(@)]
    /\ removed' = [removed EXCEPT ![e] = TRUE]
    /\ lastPost' = IF tasks[e] # <<>> /\ tasks[e][Len(tasks[e])].st = "post" THEN <<>> ELSE lastPost
    /\ UNCHANGED <<active, data, value, pending, outcome, lastProposed, writes, refreshReqs, call, calls>>

\* a refresh ends: the coordinator replaces its snapshot and every listening
\* entity runs _handle_coordinator_update (once the entity of the run is
\* removed nothing reads the snapshot any more, and polls are left out)
Poll(snap) ==
    /\ UNCHANGED <<probe, appliance>>
    /\ \A e \in active : ~removed[e]
    /\ data' = snap
    /\ value' = [e \in Entities |->
                   IF e \in active /\ ~removed[e] THEN UpdateFromCoordinator(e, value[e], snap) ELSE value[e]]
    /\ UNCHANGED <<active, pending, tasks, outcome, removed, lastProposed, writes, lastPost, refreshReqs, call, calls>>

\* ------------------------------------------------------- the service layer
\* the AZ device ids a call's target resolves to
IdLists == {<<24>>, <<30>>, <<30, 24>>}
MaxPowerArgs == {50, 5000, 2010}
ManualPowerArgs == {1000, 3050, 8000}
\* (target_temperature, boost_temperature)
TemperatureArgs == {<<Some(22), None>>, <<Some(0), Some(90)>>, <<None, None>>}
\* path and value (halves) of a direct client call
ClientArgs == {<<"maxPower", 10000>>, <<"maxPower", 2645>>, <<"targetTemperature", 111>>}
\* what GET /api/v1/devices can return to the client
Rosters == {snap.devices : snap \in Snapshots}

Idle == call.ph \in {"idle", "done", "raised"}

\* hass.services.async_call("azrouter", svc, ...): the handler starts
CallService(svc, ids, a, b) ==
    /\ UNCHANGED <<probe, appliance>>
    /\ active = {} /\ Idle /\ calls < MaxCalls
    /\ call' = [svc |-> svc, ids |-> ids, path |-> "", a |-> a, b |-> b, ph |-> "run",
                all |-> ids, w0 |-> Len(writes), r0 |-> refreshReqs]
    /\ calls' = calls + 1
    /\ UNCHANGED <<active, data, value, pending, tasks, outcome, removed,
                   lastProposed, writes, lastPost, refreshReqs>>

\* the helper the handler of call.svc runs for one device id
ServiceHelper(c, snap) ==
    CASE c.svc = "max_power"    -> ServiceMaxPower(snap, Head(c.ids), c.a)
      [] c.svc = "temperatures" -> ServiceTemperatures(snap, Head(c.ids), c.a, c.b)
      [] OTHER                  -> ServiceManualPower(snap, Head(c.ids), c.a)

\* the handler's loop reaches the next id: its helper runs up to its POST,
\* returns without one, or raises out of the handler
ServiceStep ==
    /\ UNCHANGED <<probe, appliance>>
    /\ call.ph = "run" /\ call.ids # <<>>
    /\ call.svc \in {"max_power", "temperatures", "manual_power"}
    /\ LET r == ServiceHelper(call, data) IN
        /\ call' = CASE r.res = "post"  -> [call EXCEPT !.ph = "post"]
                      [] r.res = "raise" -> [call EXCEPT !.ph = "raised"]
                      [] OTHER           -> [call EXCEPT !.ids = Tail(@)]
        /\ writes' = IF r.res = "post"
                     THEN Append(writes, [by |-> call.svc, task |-> Head(call.ids), val |-> r.val,
                                          want |-> r.val])
                     ELSE writes
        /\ lastPost' = IF r.res = "post"
                       THEN <<[by |-> call.svc, url |-> "device/settings", req |-> r.val,
                               from |-> <<data.devices[r.idx]>>, body |-> r.body]>>
                       ELSE lastPost
        /\ data' = IF r.res = "post" THEN SnapshotAfterPatch(data, r.idx, r.body) ELSE data
    /\ UNCHANGED <<active, value, pending, tasks, outcome, removed, lastProposed, refreshReqs, calls>>

\* handle_set_device_boost: the loop reaches the next id and awaits
\* client.async_set_device_boost(az_device_id, enabled), which posts at once
BoostServiceStep ==
    /\ UNCHANGED <<probe, appliance>>
    /\ call.ph = "run" /\ call.ids # <<>>
    /\ call.svc = "set_device_boost"
    /\ call' = [call EXCEPT !.ph = "post"]
    /\ writes' = Append(writes, [by |-> call.svc, task |-> Head(call.ids), val |-> call.a[1],
                                 want |-> call.a[1]])
    /\ lastPost' = <<[by |-> call.svc, url |-> "device/boost", req |-> call.a[1], from |-> <<>>,
                      body |-> [device |-> [common |-> [id |-> Head(call.ids)]], boost |-> call.a[1]]]>>
    /\ UNCHANGED <<active, data, value, pending, tasks, outcome, removed, lastProposed,
                   refreshReqs, calls>>

\* the helper's POST returns or raises; the charger helper re-raises, and
\* nothing catches what async_set_device_boost raises
ServicePostReturns(ok) ==
    /\ UNCHANGED <<probe, appliance>>
    /\ call.ph = "post" /\ call.svc \in {"max_power", "temperatures", "manual_power", "set_device_boost"}
    /\ call' = IF ~ok /\ call.svc \in {"manual_power", "set_device_boost"}
               THEN [call EXCEPT !.ph = "raised"]
               ELSE [call EXCEPT !.ph = "run", !.ids = Tail(@)]
    /\ lastPost' = <<>>
    /\ UNCHANGED <<active, data, value, pending, tasks, outcome, removed,
                   lastProposed, writes, refreshReqs, calls>>

\* the loop is over: await coordinator.async_request_refresh()
ServiceRefresh ==
    /\ UNCHANGED <<probe, appliance>>
    /\ call.ph = "run" /\ call.ids = <<>>
    /\ call' = [call EXCEPT !.ph = "done"]
    /\ refreshReqs' = refreshReqs + 1
    /\ UNCHANGED <<active, data, value, pending, tasks, outcome, removed,
                   lastProposed, writes, lastPost, calls>>

\* DeviceType1BlockSolarHeatingSwitch.async_turn_on / async_turn_off: the
\* client call starts with its devices read
SwitchTurn(on) ==
    /\ UNCHANGED <<probe, appliance>>
    /\ active = {} /\ Idle /\ calls < MaxCalls
    /\ call' = [svc |-> "switch", ids |-> <<24>>, path |-> "block_solar_heating",
                a |-> <<IF on THEN 2 ELSE 0>>, b |-> <<>>, ph |-> "get",
                all |-> <<24>>, w0 |-> Len(writes), r0 |-> refreshReqs]
    /\ calls' = calls + 1
    /\ UNCHANGED <<active, data, value, pending, tasks, outcome, removed,
                   lastProposed, writes, lastPost, refreshReqs>>

\* a direct call of AzRouterClient.async_set_device_type_1_power_setting
ClientCall(path, h) ==
    /\ UNCHANGED <<probe, appliance>>
    /\ active = {} /\ Idle /\ calls < MaxCalls
    /\ call' = [svc |-> "client", ids |-> <<24>>, path |-> path, a |-> <<h>>, b |-> <<>>, ph |-> "get",
                all |-> <<24>>, w0 |-> Len(writes), r0 |-> refreshReqs]
    /\ calls' = calls + 1
    /\ UNCHANGED <<active, data, value, pending, tasks, outcome, removed,
                   lastProposed, writes, lastPost, refreshReqs>>

\* the client method returned without raising: the switch goes on to
\* coordinator.async_request_refresh()
ClientReturned(c) == [c EXCEPT !.ph = "done"]
RefreshAfter(c) == IF c.svc = "switch" THEN 1 ELSE 0

\* the devices read returns roster: the client patches the fetched record and
\* posts it, or returns without a write
DevicesRead(roster) ==
    /\ UNCHANGED <<probe, appliance>>
    /\ call.ph = "get"
    /\ LET r == ClientPowerSetting(roster, Head(call.ids), call.path, call.a[1]) IN
        IF r.res = "post"
        THEN /\ call' = [call EXCEPT !.ph = "post"]
             /\ writes' = Append(writes, [by |-> call.svc, task |-> Head(call.ids), val |-> r.val,
                                          want |-> r.val])
             /\ lastPost' = <<[by |-> call.svc, url |-> "device/settings", req |-> r.val,
                               from |-> <<roster[r.idx]>>, body |-> r.body]>>
             /\ UNCHANGED refreshReqs
        ELSE /\ call' = ClientReturned(call)
             /\ refreshReqs' = refreshReqs + RefreshAfter(call)
             /\ UNCHANGED <<writes, lastPost>>
    /\ UNCHANGED <<active, data, value, pending, tasks, outcome, removed, lastProposed, calls>>

\* the devices read raises: the client logs a warning and returns
DevicesReadFails ==
    /\ UNCHANGED <<probe, appliance>>
    /\ call.ph = "get"
    /\ call' = ClientReturned(call)
    /\ refreshReqs' = refreshReqs + RefreshAfter(call)
    /\ UNCHANGED <<active, data, value, pending, tasks, outcome, removed,
                   lastProposed, writes, lastPost, calls>>

\* the client's POST returns, or raises out of the client method and its caller
ClientPostReturns(ok) ==
    /\ UNCHANGED <<probe, appliance>>
    /\ call.ph = "post" /\ call.svc \in {"switch", "client"}
    /\ call' = IF ok THEN ClientReturned(call) ELSE [call EXCEPT !.ph = "raised"]
    /\ refreshReqs' = IF ok THEN refreshReqs + RefreshAfter(call) ELSE refreshReqs
    /\ lastPost' = <<>>
    /\ UNCHANGED <<active, data, value, pending, tasks, outcome, removed,
                   lastProposed, writes, calls>>

\* the boost switches: the master's, a boiler's, a charger's
BoostSwitches == {"master_boost", "boost_1", "boost_4"}
\* the refresh delay of a switch class, in tenths of a second
REFRESH_DELAY(sw) == IF sw = "master_boost" THEN 0 ELSE 8
\* the body of async_set_master_boost / async_set_device_boost
BoostPayload(sw, on) ==
    IF sw = "master_boost" THEN [boost |-> IF on THEN 1 ELSE 0]
    ELSE [device |-> [common |-> [id |-> IF sw = "boost_1" THEN 24 ELSE 30]],
          boost |-> IF on THEN 1 ELSE 0]
\* <boost switch>.async_turn_on / async_turn_off: the POST is issued at once
BoostTurn(sw, on) ==
    /\ UNCHANGED <<probe, appliance>>
    /\ active = {} /\ Idle /\ calls < MaxCalls
    /\ call' = [svc |-> sw, ids |-> IF sw = "master_boost" THEN <<>> ELSE <<IF sw = "boost_1" THEN 24 ELSE 30>>,
                path |-> "boost", a |-> <<IF on THEN 1 ELSE 0>>, b |-> <<>>, ph |-> "post",
                all |-> <<>>, w0 |-> Len(writes), r0 |-> refreshReqs]
    /\ calls' = calls + 1
    /\ writes' = Append(writes, [by |-> sw, task |-> 0, val |-> IF on THEN 1 ELSE 0,
                                 want |-> IF on THEN 1 ELSE 0])
    /\ lastPost' = <<[by |-> sw, url |-> IF sw = "master_boost" THEN "master/boost" ELSE "device/boost",
                      req |-> IF on THEN 1 ELSE 0, from |-> <<>>, body |-> BoostPayload(sw, on)]>>
    /\ UNCHANGED <<active, data, value, pending, tasks, outcome, removed, lastProposed, refreshReqs>>
\* the boost POST returns or raises (caught and logged): the master switch
\* requests its refresh, a device switch first sleeps _REFRESH_DELAY
BoostPostReturns(ok) ==
    /\ UNCHANGED <<probe, appliance>>
    /\ call.ph = "post" /\ call.svc \in BoostSwitches
    /\ call' = [call EXCEPT !.ph = IF REFRESH_DELAY(call.svc) > 0 THEN "settle" ELSE "done"]
    /\ refreshReqs' = IF REFRESH_DELAY(call.svc) > 0 THEN refreshReqs ELSE refreshReqs + 1
    /\ lastPost' = <<>>
    /\ UNCHANGED <<active, data, value, pending, tasks, outcome, removed, lastProposed, writes, calls>>
\* asyncio.sleep(self._REFRESH_DELAY) is over: coordinator.async_request_refresh()
SettleElapsed ==
    /\ UNCHANGED <<probe, appliance>>
    /\ call.ph = "settle"
    /\ call' = [call EXCEPT !.ph = "done"]
    /\ refreshReqs' = refreshReqs + 1
    /\ UNCHANGED <<active, data, value, pending, tasks, outcome, removed, lastProposed,
                   writes, lastPost, calls>>

Next ==
    \/ \E e \in Entities : \E h \in Inputs(e) : Propose(e, h)
    \/ \E e \in Entities : \E i \in 1..MaxProposals : Fire(e, i)
    \/ \E e \in Entities : \E i \in 1..MaxProposals : \E doc \in SettingsReads : GetReturns(e, i, doc)
    \/ \E e \in Entities : \E i \in 1..MaxProposals : GetFails(e, i)
    \/ \E e \in Entities : \E i \in 1..MaxProposals : \E ok \in BOOLEAN : PostReturns(e, i, ok)
    \/ \E e \in Entities : Teardown(e)
    \/ \E snap \in Snapshots : Poll(snap)
    \/ \E ids \in IdLists : \E mp \in MaxPowerArgs : CallService("max_power", ids, Some(mp), None)
    \/ \E ids \in IdLists : \E tb \in TemperatureArgs : CallService("temperatures", ids, tb[1], tb[2])
    \/ \E ids \in IdLists : \E mp \in ManualPowerArgs : CallService("manual_power", ids, Some(mp), None)
    \/ \E ids \in IdLists : \E en \in {0, 1} : CallService("set_device_boost", ids, Some(en), None)
    \/ ServiceStep
    \/ BoostServiceStep
    \/ \E ok \in BOOLEAN : ServicePostReturns(ok)
    \/ ServiceRefresh
    \/ \E on \in BOOLEAN : SwitchTurn(on)
    \/ \E c \in ClientArgs : ClientCall(c[1], c[2])
    \/ \E roster \in Rosters : DevicesRead(roster)
    \/ DevicesReadFails
    \/ \E ok \in BOOLEAN : ClientPostReturns(ok)
    \/ \E sw \in BoostSwitches : \E on \in BOOLEAN : BoostTurn(sw, on)
    \/ \E ok \in BOOLEAN : BoostPostReturns(ok)
    \/ SettleElapsed

Spec == Init /\ [][Next]_vars

\* ===================================================== reads and pure helpers
\* A JSON value as the parser hands it over, with mapping keys in source
\* order: a scalar leaf (s is its JSON text: "1", "null", "true", "\"x\""),
\* a sequence, or a mapping (kv: the members, keys distinct).  A read that
\* raised is Exc.
Leaf(s) == [t |-> "leaf", s |-> s]
Arr(items) == [t |-> "list", items |-> items]
Map(kv) == [t |-> "map", kv |-> kv]
KV(k, c) == [k |-> k, c |-> c]
Exc == [t |-> "exc"]
IsDict(x) == x.t = "map"
IsList(x) == x.t = "list"
\* "k in d" and d[k] of a mapping
HasKey(m, k) == \E i \in DOMAIN m.kv : m.kv[i].k = k
Member(m, k) == m.kv[CHOOSE i \in DOMAIN m.kv : m.kv[i].k = k].c

\* (variant: the segment is not appended to a non-empty base)
JoinedNoKey(base, seg) == IF base # "" THEN base ELSE seg
\* the segment f"{base}.{k}" if base else k
Joined(base, seg) == IF base # "" THEN base \o "." \o seg ELSE seg
\* _flatten(obj, base, out) of async_get_all_data: the pairs appended to out
RECURSIVE Flatten(_, _)
RECURSIVE FlattenMembers(_, _, _)
RECURSIVE FlattenItems(_, _, _)
FlattenMembers(kv, i, base) ==
    IF i > Len(kv) THEN <<>>
    ELSE Flatten(kv[i].c, Joined(base, kv[i].k)) \o FlattenMembers(kv, i + 1, base)
FlattenItems(items, i, base) ==
    IF i > Len(items) THEN <<>>
    ELSE Flatten(items[i], Joined(base, ToString(i - 1))) \o FlattenItems(items, i + 1, base)
\* (variant: a null leaf is dropped)
FlattenDropsNull(obj, base) ==
    CASE IsDict(obj) -> FlattenMembers(obj.kv, 1, base)
      [] IsList(obj) -> FlattenItems(obj.items, 1, base)
      [] OTHER       -> IF obj.s = "null" THEN <<>> ELSE <<[path |-> base, value |-> obj.s]>>
Flatten(obj, base) ==
    CASE IsDict(obj) -> FlattenMembers(obj.kv, 1, base)
      [] IsList(obj) -> FlattenItems(obj.items, 1, base)
      [] OTHER       -> <<[path |-> base, value |-> obj.s]>>

\* _flatten_device(d, prefix): the (path, value) pairs returned
RECURSIVE FlattenDevice(_, _)
RECURSIVE FlattenDeviceMembers(_, _, _)
RECURSIVE FlattenDeviceItems(_, _, _)
FlattenDeviceMembers(kv, i, prefix) ==
    IF i > Len(kv) THEN <<>>
    ELSE FlattenDevice(kv[i].c, Joined(prefix, kv[i].k)) \o FlattenDeviceMembers(kv, i + 1, prefix)
FlattenDeviceItems(items, i, prefix) ==
    IF i > Len(items) THEN <<>>
    ELSE FlattenDevice(items[i], prefix \o "." \o ToString(i - 1))
            \o FlattenDeviceItems(items, i + 1, prefix)
FlattenDevice(d, prefix) ==
    CASE IsDict(d) -> FlattenDeviceMembers(d.kv, 1, prefix)
      [] IsList(d) -> FlattenDeviceItems(d.items, 1, prefix)
      [] OTHER     -> <<[path |-> prefix, value |-> d.s]>>

\* async_get_status / async_get_power / async_get_settings: the parsed body
\* if it is a mapping, else {}; an exception of the request passes through
DictOrEmpty(r) == IF r = Exc THEN Exc ELSE IF IsDict(r) THEN r ELSE Map(<<>>)
\* async_get_devices: a list, or the list under "devices", else []
AsyncGetDevices(r) ==
    IF r = Exc THEN Exc
    ELSE IF IsList(r) THEN r
    ELSE IF IsDict(r) /\ HasKey(r, "devices") /\ IsList(Member(r, "devices")) THEN Member(r, "devices")
    ELSE Arr(<<>>)
\* (variant: the section is dropped whatever the read returned)
SectionEmpty(r) == Map(<<>>)
\* "r if isinstance(r, dict) else {}" on a gathered result (an exception is no dict)
SectionDict(r) == IF IsDict(r) THEN r ELSE Map(<<>>)
\* async_get_all_data, given what the four requests return or raise:
\* asyncio.gather(..., return_exceptions=True) hands an exception over as a
\* result, and each result of the wrong type is replaced by its empty default
AsyncGetAllData(rPower, rStatus, rDevices, rSettings) ==
    LET gp == DictOrEmpty(rPower)
        gs == DictOrEmpty(rStatus)
        gd == AsyncGetDevices(rDevices)
        gt == DictOrEmpty(rSettings)
        power == SectionDict(gp)
        status == SectionDict(gs)
        devices == IF IsList(gd) THEN gd ELSE Arr(<<>>)
        settings == SectionDict(gt)
    IN [master_data |-> Flatten(power, "power") \o Flatten(status, "status"),
        devices |-> devices, settings |-> settings]

\* ------------------------------------------------ Python scalars and int()
\* a value found in a payload or handed to a service: an int, a float (given
\* in halves), a string, None; Missing stands for a key that is not there
PInt(n) == [k |-> "int", n |-> n]
PFloat(h) == [k |-> "float", h |-> h]
PStr(s) == [k |-> "str", s |-> s]
PNone == [k |-> "none"]
Missing == [k |-> "missing"]
\* int(s) of a string: its decimal value, <<>> for a ValueError
DecimalOf(s) ==
    CASE s = "10" -> <<10>> [] s = "16" -> <<16>> [] s = "24" -> <<24>> [] s = "30" -> <<30>>
      [] s = "55" -> <<55>> [] s = "2000" -> <<2000>> [] OTHER -> <<>>
\* int(x): <<n>>, or <<>> when it raises (TypeError for None, ValueError for
\* a string that is no number); a float is truncated towards zero
IntOf(x) ==
    CASE x.k = "int"   -> <<x.n>>
      [] x.k = "float" -> <<IF x.h >= 0 THEN x.h \div 2 ELSE 0 - ((0 - x.h) \div 2)>>
      [] x.k = "str"   -> DecimalOf(x.s)
      [] OTHER         -> <<>>
\* the charger record whose charge.circuitBreaker is the int n / is not there
ChargerRated(n) == [deviceType |-> "4", common |-> [id |-> 30], charge |-> [circuitBreaker |-> n]]
ChargerUnrated == [deviceType |-> "4", common |-> [id |-> 30], charge |-> EmptyDict]
\* _get_breaker_limit(dev) for a record whose charge.circuitBreaker is raw:
\* int(breaker) in try/except, then the table
EntityBreakerLimit(raw) ==
    IF IntOf(raw) = <<>> THEN DEFAULT_MAX_POWER ELSE GetBreakerLimit(<<ChargerRated(IntOf(raw)[1])>>)
\* cb_value = int(charge.get("circuitBreaker", 16)) and the table lookup of
\* the manual-power service: the limit, or the exception int() raises
ServiceBreakerLimitOf(raw) ==
    IF raw = Missing THEN [res |-> "ok", limit |-> ServiceBreakerLimit(ChargerUnrated)]
    ELSE IF IntOf(raw) = <<>> THEN [res |-> "raise", limit |-> 0]
    ELSE [res |-> "ok", limit |-> ServiceBreakerLimit(ChargerRated(IntOf(raw)[1]))]

\* --------------------------------------------- inputs of the pure helpers
\* JSON documents of bounded depth and width
Scalars == {Leaf("1"), Leaf("null"), Leaf("\"x\"")}
KeySeqs == {<<>>, <<"a">>, <<"b">>, <<"a", "b">>, <<"b", "a">>, <<"0">>, <<"a.b">>}
SeqsUpTo(S) == UNION {[1..n -> S] : n \in 0..MaxItems}
Lists(S) == {Arr(q) : q \in SeqsUpTo(S)}
Maps(S) == UNION {{Map([i \in DOMAIN ks |-> KV(ks[i], cs[i])]) : cs \in [DOMAIN ks -> S]} : ks \in KeySeqs}
Inner == {Leaf("true"), Arr(<<>>), Map(<<>>), Arr(<<Leaf("null"), Leaf("2")>>),
          Map(<<KV("b", Leaf("1")), KV("a", Leaf("null"))>>)}
Deep == {Map(<<KV("cloud", Map(<<KV("hosts", Arr(<<Map(<<KV("name", Leaf("\"h\"")), KV("ok", Leaf("false"))>>),
                                                     Arr(<<Leaf("3"), Arr(<<>>)>>)>>)),
                                 KV("n", Leaf("0"))>>)),
               KV("input", Arr(<<Map(<<KV("power", Arr(<<Leaf("10"), Leaf("20"), Leaf("null")>>))>>)>>))>>),
         Arr(<<Arr(<<Arr(<<Leaf("1")>>), Map(<<>>)>>), Leaf("\"y\"")>>),
         Map(<<KV("a", Map(<<KV("b", Leaf("1"))>>))>>)}
Docs == Scalars \cup Lists(Scalars) \cup Maps(Scalars) \cup Lists(Inner) \cup Maps(Inner) \cup Deep

\* what one request of a refresh can yield: an exception, a body that is no
\* JSON (_api_request returns {}), JSON of the wrong type, the expected document
StatusBody == Map(<<KV("system", Map(<<KV("uptime", Leaf("77")), KV("hdo", Leaf("null"))>>)),
                    KV("cloud", Map(<<KV("status", Leaf("1"))>>))>>)
PowerBody == Map(<<KV("input", Map(<<KV("power", Arr(<<Map(<<KV("value", Leaf("120"))>>),
                                                       Map(<<KV("value", Leaf("-5"))>>)>>))>>)),
                   KV("output", Map(<<KV("energy", Arr(<<Leaf("1"), Leaf("2")>>))>>))>>)
DeviceBody == Arr(<<Map(<<KV("deviceType", Leaf("\"1\"")), KV("common", Map(<<KV("id", Leaf("24"))>>))>>)>>)
SettingsBody == Map(<<KV("regulation", Map(<<KV("target_power_w", Leaf("100"))>>))>>)
StatusReads == {Exc, Map(<<>>), Arr(<<Leaf("1")>>), Leaf("null"), StatusBody}
PowerReads == {Exc, Map(<<>>), Arr(<<Leaf("1")>>), Leaf("\"x\""), PowerBody}
DevicesReads == {Exc, Map(<<>>), Leaf("null"), Map(<<KV("devices", Leaf("null"))>>),
                 Map(<<KV("devices", DeviceBody)>>), DeviceBody}
SettingsBodies == {Exc, Map(<<>>), Arr(<<SettingsBody>>), SettingsBody}

\* charge.circuitBreaker as a charger record can carry it
BreakerValues == {PInt(10), PInt(16), PInt(24), PInt(32), PInt(20), PInt(0), PFloat(64),
                  PStr("16"), PStr("B16"), PNone, Missing}

\* ------------------------------------------- the pure helpers, one call each
\* no helper is being evaluated
Ready == probe.op = ""
\* a helper is called when none is being evaluated; nothing else changes
Unchanged ==
    /\ Ready
    /\ UNCHANGED <<active, data, value, pending, tasks, outcome, removed,
                   lastProposed, writes, lastPost, refreshReqs, call, calls, appliance>>
\* the caller has used the result
Return ==
    /\ probe.op # ""
    /\ probe' = [op |-> ""]
    /\ UNCHANGED <<active, data, value, pending, tasks, outcome, removed,
                   lastProposed, writes, lastPost, refreshReqs, call, calls, appliance>>
\* one refresh of the coordinator: async_get_all_data runs its four reads
Refresh(rPower, rStatus, rDevices, rSettings) ==
    /\ Unchanged
    /\ probe' = [op |-> "refresh", rPower |-> rPower, rStatus |-> rStatus,
                 rDevices |-> rDevices, rSettings |-> rSettings,
                 out |-> AsyncGetAllData(rPower, rStatus, rDevices, rSettings)]
\* _flatten(obj, base, out) on an empty out
FlattenDoc(obj, base) ==
    /\ Unchanged
    /\ probe' = [op |-> "flatten", obj |-> obj, base |-> base, out |-> Flatten(obj, base)]
\* _flatten_device(device) on a device record
FlattenRecord(d) ==
    /\ Unchanged
    /\ probe' = [op |-> "flatten_device", obj |-> d, base |-> "", out |-> FlattenDevice(d, "")]
\* the manual-power ceiling of a charger, as the number entity and as the
\* service compute it
BreakerLookup(raw) ==
    /\ Unchanged
    /\ probe' = [op |-> "breaker", raw |-> raw, entity |-> EntityBreakerLimit(raw),
                 service |-> ServiceBreakerLimitOf(raw)]

\* ------------------------------------------- locators over a raw roster
\* a roster entry as the appliance can send it: a mapping whose deviceType is
\* a scalar and whose common is a mapping, null or absent; an entry that is
\* no mapping is given as a scalar
RawDev(t, c) == [k |-> "dict", deviceType |-> t, common |-> c]
RawCommon(id) == [k |-> "dict", id |-> id]
\* str(x)
StrOf(x) == CASE x.k = "str" -> x.s [] x.k = "int" -> ToString(x.n) [] OTHER -> "None"
\* x == y of two scalars (an absent key reads as None)
PyEq(x, y) ==
    CASE x.k = "int" /\ y.k = "int" -> x.n = y.n
      [] x.k = "str" /\ y.k = "str" -> x.s = y.s
      [] OTHER -> x.k \in {"none", "missing"} /\ y.k \in {"none", "missing"}
\* dev.get("common", {}).get("id", dflt): <<value>>, or <<>> for the
\* AttributeError of a dev or a common that is no mapping
CommonId(dev, dflt) ==
    IF dev.k # "dict" THEN <<>>
    ELSE IF dev.common.k = "missing" THEN <<dflt>>
    ELSE IF dev.common.k # "dict" THEN <<>>
    ELSE IF dev.common.id.k = "missing" THEN <<dflt>> ELSE <<dev.common.id>>
\* one turn of the loop of <number entity>._find_device_from_coordinator:
\* "hit" when the entry is returned, "skip" when the loop goes on
EntityMatch(dev, type, id) ==
    IF dev.k # "dict" THEN "skip"
    ELSE IF StrOf(dev.deviceType) # type THEN "skip"
    ELSE IF CommonId(dev, PNone) = <<>> THEN "skip"
    ELSE IF PyEq(CommonId(dev, PNone)[1], PInt(id)) THEN "hit" ELSE "skip"
\* one turn of the loop of a service helper of number.py: int() on both ids
ServiceMatch(dev, type, req) ==
    IF dev.k # "dict" THEN "skip"
    ELSE IF StrOf(dev.deviceType) # type THEN "skip"
    ELSE IF CommonId(dev, PInt(0 - 1)) = <<>> THEN "skip"
    ELSE IF IntOf(CommonId(dev, PInt(0 - 1))[1]) = <<>> \/ IntOf(req) = <<>> THEN "skip"
    ELSE IF IntOf(CommonId(dev, PInt(0 - 1))[1]) = IntOf(req) THEN "hit" ELSE "skip"
\* dev.get("common", {}) or {}, then .get("id", -1)
ClientCommonId(dev) ==
    IF dev.common.k = "dict" /\ dev.common.id.k # "missing" THEN dev.common.id ELSE PInt(0 - 1)
\* one turn of the loop of async_set_device_type_1_power_setting (and of the
\* switch's _get_current_flag): int() on the roster id only
ClientMatch(dev, type, id) ==
    IF dev.k # "dict" THEN "skip"
    ELSE IF IntOf(ClientCommonId(dev)) = <<>> THEN "skip"
    ELSE IF StrOf(dev.deviceType) = type /\ IntOf(ClientCommonId(dev))[1] = id THEN "hit" ELSE "skip"
\* one turn of the loop of DeviceBase._read_raw: the id alone, as stored
ReadRawMatch(dev, selfId) ==
    IF CommonId(dev, PNone) = <<>> THEN "skip"
    ELSE IF PyEq(CommonId(dev, PNone)[1], selfId) THEN "hit" ELSE "skip"
\* one turn of the loop of find_device_by_id: no try/except around dev.get
FindByIdMatch(dev, id) ==
    IF dev.k # "dict" THEN "raise"
    ELSE IF dev.common.k = "dict" /\ PyEq(dev.common.id, PInt(id)) THEN "hit" ELSE "skip"
\* the loop: index of the first entry returned, 0 for None, -1 when a turn raises
RECURSIVE FirstFrom(_, _)
FirstFrom(res, i) ==
    IF i > Len(res) THEN 0
    ELSE IF res[i] = "hit" THEN i
    ELSE IF res[i] = "raise" THEN 0 - 1
    ELSE FirstFrom(res, i + 1)
\* the locator named by, called for the device (type, req) on the roster devs
LocatorResult(by, devs, type, req) ==
    FirstFrom([i \in DOMAIN devs |->
                 CASE by = "entity"   -> EntityMatch(devs[i], type, IntOf(req)[1])
                   [] by = "service"  -> ServiceMatch(devs[i], type, req)
                   [] by = "client"   -> ClientMatch(devs[i], type, IntOf(req)[1])
                   [] by = "read_raw" -> ReadRawMatch(devs[i], req)
                   [] OTHER           -> FindByIdMatch(devs[i], IntOf(req)[1])], 1)
Locators == {"entity", "service", "client", "read_raw", "find_device_by_id"}
\* rosters of raw entries, and the ids a caller asks for
RawTypes == {PStr("1"), PStr("4"), PInt(1)}
RawCommons == {Missing, PNone, RawCommon(PInt(24)), RawCommon(PStr("24")),
               RawCommon(PStr("abc")), RawCommon(PInt(30))}
RawEntries == {RawDev(t, c) : t \in RawTypes, c \in RawCommons} \cup {PNone}
RawRosters == SeqsUpTo(RawEntries)
RequestedIds == {PInt(24), PStr("24")}
\* one lookup: the number entities, the client and find_device_by_id hold
\* the id as an int, a service gets it from the call, _read_raw keeps the
\* common.id of the record the entity was built from
Locate(by, devs, type, req) ==
    /\ Unchanged
    /\ by \in {"entity", "client", "find_device_by_id"} => req.k = "int"
    /\ probe' = [op |-> "locate", by |-> by, devs |-> devs, type |-> type, req |-> req,
                 idx |-> LocatorResult(by, devs, type, req)]

\* ------------------------------------- write paths handed a raw value
\* The handlers of __init__.py pass call.data on as it came (no schema), so
\* a helper can be handed any scalar.  Each yields [res, ...] as above.
\* float(x) in halves: <<h>>, or <<>> when it raises
HalvesOf(x) ==
    CASE x.k = "int"   -> <<2 * x.n>>
      [] x.k = "float" -> <<x.h>>
      [] x.k = "str"   -> IF DecimalOf(x.s) = <<>> THEN <<>> ELSE <<2 * DecimalOf(x.s)[1]>>
      [] OTHER         -> <<>>
\* async_service_set_device_type_1_max_power: None is ignored, a value
\* int() rejects is logged and the helper returns
MaxPowerCall(snap, id, raw) ==
    IF raw = PNone THEN Skip
    ELSE IF IntOf(raw) = <<>> THEN Skip
    ELSE ServiceMaxPower(snap, id, IntOf(raw))
\* async_service_set_device_type_1_temperatures: a value int() rejects
\* becomes None and its field is left out
TemperaturesCall(snap, id, rawT, rawB) ==
    ServiceTemperatures(snap, id, IntOf(rawT), IntOf(rawB))
\* async_service_set_device_type_4_manual_power: None and a value int()
\* rejects raise HomeAssistantError
ManualPowerCall(snap, id, raw) ==
    IF raw = PNone THEN Raise
    ELSE IF FindDeviceForService(snap, "4", id) = 0 THEN Raise
    ELSE IF IntOf(raw) = <<>> THEN Raise
    ELSE ServiceManualPower(snap, id, IntOf(raw))
\* async_set_device_type_1_power_setting: int(round(float(value))) in
\* try/except, a warning and return when it raises
PowerSettingCall(roster, id, path, raw) ==
    IF ScanFrom(roster, 1, "1", id) = 0 THEN Skip
    ELSE IF HalvesOf(raw) = <<>> THEN Skip
    ELSE ClientPowerSetting(roster, id, path, HalvesOf(raw)[1])
\* async_set_master_target_power: int(target_power_w) in try/except, a
\* warning and return when it raises; else the settings read and the POST
MasterTargetPowerCall(doc, raw) ==
    IF IntOf(raw) = <<>> THEN Skip
    ELSE [res |-> "post", val |-> ClampMaster(IntOf(raw)[1]), body |-> MasterPayload(doc, IntOf(raw)[1])]
WritePaths == {"max_power", "temperatures", "manual_power", "client", "master"}
RawValues == {PInt(55), PStr("55"), PStr("abc"), PNone, PFloat(111)}
\* the write path named by, handed raw (and raw2, the boost temperature)
WriteResult(by, snap, raw, raw2) ==
    CASE by = "max_power"    -> MaxPowerCall(snap, 24, raw)
      [] by = "temperatures" -> TemperaturesCall(snap, 24, raw, raw2)
      [] by = "manual_power" -> ManualPowerCall(snap, 30, raw)
      [] by = "client"       -> PowerSettingCall(snap.devices, 24, "targetTemperature", raw)
      [] OTHER               -> MasterTargetPowerCall(snap.settings, raw)
\* one call of a write path, up to its POST
WriteRaw(by, raw, raw2) ==
    /\ Unchanged
    /\ by # "temperatures" => raw2 = PNone
    /\ probe' = [op |-> "write", by |-> by, raw |-> raw, raw2 |-> raw2,
                 out |-> WriteResult(by, data, raw, raw2)]

\* ------------------------------------------------- reading by dotted path
\* A path is given by its segments, path.split(".").  Python's None and a
\* JSON null are the same value.
NoneValue == Leaf("null")
\* _dig(d, path): the value the segments lead to, None as soon as the
\* current value is no mapping or lacks the segment
RECURSIVE Dig(_, _)
Dig(cur, segs) ==
    IF segs = <<>> THEN cur
    ELSE IF ~IsDict(cur) \/ ~HasKey(cur, Head(segs)) THEN NoneValue
    ELSE Dig(Member(cur, Head(segs)), Tail(segs))
\* the loop over the fallback roots: the first value that is not None
RECURSIVE DigRoots(_, _, _)
DigRoots(payload, segs, roots) ==
    IF roots = <<>> THEN NoneValue
    ELSE IF /\ HasKey(payload, Head(roots)) /\ IsDict(Member(payload, Head(roots)))
            /\ Dig(Member(payload, Head(roots)), segs) # NoneValue
         THEN Dig(Member(payload, Head(roots)), segs)
         ELSE DigRoots(payload, segs, Tail(roots))
\* the lookup shared by both _get_value functions
GetValueFrom(payload, segs, roots) ==
    IF ~IsDict(payload) THEN NoneValue
    ELSE IF Dig(payload, segs) # NoneValue THEN Dig(payload, segs)
    ELSE DigRoots(payload, segs, roots)
\* (variant: power is tried before status)
GetValuePowerFirst(payload, segs) == GetValueFrom(payload, segs, <<"power", "status">>)
\* entity._get_value(payload, path)
GetValue(payload, segs) == GetValueFrom(payload, segs, <<"status", "power">>)
\* devices.helpers._get_value(payload, path, extra_roots)
HelpersGetValue(payload, segs, extra_roots) ==
    GetValueFrom(payload, segs, <<"status", "power", "settings">> \o extra_roots)
\* payloads: each key absent or present with one of a few values
Under(k, cs) == {<<>>} \cup {<<KV(k, c)>> : c \in cs}
Payloads ==
    {Map(x \o st \o pw \o se \o ex \o a) :
        x \in Under("x", {Leaf("null"), Leaf("1")}),
        st \in Under("status", {Leaf("9"), Map(<<KV("x", Leaf("null"))>>), Map(<<KV("x", Leaf("2"))>>)}),
        pw \in Under("power", {Map(<<KV("x", Leaf("3")), KV("a", Map(<<KV("b", Leaf("8"))>>))>>)}),
        se \in Under("settings", {Map(<<KV("x", Leaf("4"))>>)}),
        ex \in Under("extra", {Map(<<KV("x", Leaf("5"))>>)}),
        a \in Under("a", {Leaf("6"), Map(<<KV("b", Leaf("7"))>>), Map(<<KV("b", Leaf("null"))>>)})}
        \cup {Arr(<<>>), Leaf("1")}
Paths == {<<"x">>, <<"a", "b">>, <<"x", "y">>, <<"status">>}
ExtraRoots == {<<>>, <<"extra">>}
\* one read through entity._get_value / helpers._get_value
ReadValue(payload, segs) ==
    /\ Unchanged
    /\ probe' = [op |-> "get_value", fn |-> "entity", payload |-> payload, path |-> segs,
                 roots |-> <<"status", "power">>, out |-> GetValue(payload, segs)]
ReadValueHelpers(payload, segs, extra) ==
    /\ Unchanged
    /\ probe' = [op |-> "get_value", fn |-> "helpers", payload |-> payload, path |-> segs,
                 roots |-> <<"status", "power", "settings">> \o extra,
                 out |-> HelpersGetValue(payload, segs, extra)]

\* -------------------------------------------- specification of the helpers
InitFn ==
    /\ active = {} /\ data = SnapFull
    /\ pending = [e \in Entities |-> None]
    /\ value = [e \in Entities |-> None]
    /\ tasks = [e \in Entities |-> <<>>]
    /\ outcome = [e \in Entities |-> ""]
    /\ removed = [e \in Entities |-> FALSE]
    /\ lastProposed = [e \in Entities |-> None]
    /\ writes = <<>> /\ lastPost = <<>> /\ refreshReqs = 0
    /\ call = [svc |-> "", ids |-> <<>>, path |-> "", a |-> <<>>, b |-> <<>>, ph |-> "idle",
               all |-> <<>>, w0 |-> 0, r0 |-> 0]
    /\ calls = 0
    /\ probe = [op |-> ""]
    /\ appliance = <<>>
NextFn ==
    \/ Ready /\ \E rp \in PowerReads : \E rs \in StatusReads : \E rd \in DevicesReads :
         \E rt \in SettingsBodies : Refresh(rp, rs, rd, rt)
    \/ Ready /\ \E obj \in Docs : \E base \in {"power", "status"} : FlattenDoc(obj, base)
    \/ Ready /\ \E d \in {x \in Docs : IsDict(x)} : FlattenRecord(d)
    \/ Ready /\ \E raw \in BreakerValues : BreakerLookup(raw)
    \/ Ready /\ \E by \in Locators : \E devs \in RawRosters : \E type \in {"1", "4"} :
         \E req \in RequestedIds : Locate(by, devs, type, req)
    \/ Ready /\ \E by \in WritePaths : \E raw \in RawValues : \E raw2 \in RawValues :
         WriteRaw(by, raw, raw2)
    \/ Ready /\ \E payload \in Payloads : \E segs \in Paths : ReadValue(payload, segs)
    \/ Ready /\ \E payload \in Payloads : \E segs \in Paths : \E extra \in ExtraRoots :
         ReadValueHelpers(payload, segs, extra)
    \/ Return
SpecFn == InitFn /\ [][NextFn]_vars

\* ============================================================== properties
\* the entities whose _send_later can reach a network write
Debounced == {"temp", "boost", "maxp", "manual", "master"}
\* the writes an entity (or a service) issued, in order
WritesBy(e, ws) == SelectSeq(ws, LAMBDA w : w.by = e)
\* the snapshot holds the entity's device / a record _send_later can patch
Locatable(e, snap) ==
    \E k \in DOMAIN snap.devices :
        snap.devices[k].deviceType = DeviceTypeOf(e) /\ snap.devices[k].common.id = DeviceIdOf(e)
Patchable(e, snap) ==
    \A k \in DOMAIN snap.devices :
        (snap.devices[k].deviceType = DeviceTypeOf(e) /\ e = "manual")
            => ~(Has(snap.devices[k], "settings") /\ snap.devices[k].settings.t = "null")
\* in this step task i of e leaves asyncio.sleep
FiredNow(e, i) ==
    /\ i \in DOMAIN tasks[e]
    /\ tasks[e][i].st = "sleeping"
    /\ tasks'[e][i].st \in {"get", "post", "done"}
\* the one write a fire of task i issues
WriteOf(e, i) == [by |-> e, task |-> i, val |-> lastProposed[e][1], want |-> lastProposed[e][1]]

\* three proposals, the second and third each made while the previous
\* task's window had not elapsed
RapidThree(e) == Len(tasks[e]) = 3 /\ tasks[e][2].rapid /\ tasks[e][3].rapid

C1_AtMostOne ==
    \A e \in Debounced :
        RapidThree(e) =>
            LET ws == WritesBy(e, writes) IN
            /\ Len(ws) <= 1
            /\ \A k \in DOMAIN ws : ws[k].task = 3 /\ ws[k].val = lastProposed[e][1]
C1_FireWrites ==
    \A e \in DeviceEntities :
        (RapidThree(e) /\ FiredNow(e, 3)) =>
            IF Locatable(e, data) /\ Patchable(e, data)
            THEN WritesBy(e, writes') = <<WriteOf(e, 3)>> /\ tasks'[e][3].st = "post"
            ELSE writes' = writes /\ tasks'[e][3].st = "done"
C1_MasterWrites ==
    /\ (RapidThree("master") /\ FiredNow("master", 3)) =>
            (tasks'["master"][3].st = "get" /\ writes' = writes)
    /\ (RapidThree("master") /\ tasks["master"][3].st = "get") =>
            CASE tasks'["master"][3].st = "post" -> WritesBy("master", writes') = <<WriteOf("master", 3)>>
              [] OTHER -> writes' = writes
Quiesced(e) == Len(tasks[e]) = 2 /\ ~tasks[e][2].rapid

C2_InOrder ==
    \A e \in Debounced :
        Quiesced(e) =>
            LET ws == WritesBy(e, writes) IN
            /\ Len(ws) <= 2
            /\ \A k \in DOMAIN ws : ws[k].val = ws[k].want
            /\ \A j, k \in DOMAIN ws : j < k => ws[j].task < ws[k].task
C2_FireWrites ==
    \A e \in DeviceEntities : \A i \in {1, 2} :
        (i = Len(tasks[e]) /\ ~tasks[e][i].rapid /\ FiredNow(e, i)) =>
            IF Locatable(e, data) /\ Patchable(e, data)
            THEN writes' = Append(writes, WriteOf(e, i))
            ELSE writes' = writes
C2_MasterWrites ==
    \A i \in {1, 2} :
        (i = Len(tasks["master"]) /\ ~tasks["master"][i].rapid /\ tasks["master"][i].st = "get") =>
            CASE tasks'["master"][i].st = "post" -> writes' = Append(writes, WriteOf("master", i))
              [] OTHER -> writes' = writes
C3_NothingScheduled ==
    \A e \in Entities : removed[e] => \A i \in DOMAIN tasks[e] : ~Live(tasks[e][i])
C3_NoWriteAfter ==
    \A e \in Entities : removed[e] => WritesBy(e, writes') = WritesBy(e, writes)
C3_CancelledStays ==
    \A e \in Entities : \A i \in DOMAIN tasks[e] :
        tasks[e][i].st = "cancelled" => tasks'[e][i] = tasks[e][i]
\* C3: once async_will_remove_from_hass has run, the entity (of any of the
\* five classes) has no task that can still fire, a cancelled task never
\* resumes, and no write of the entity is issued from then on.
C3_Teardown == [](C3_NothingScheduled) /\ [][C3_NoWriteAfter /\ C3_CancelledStays]_vars
\* teardown reached a task still in its window; nothing was written
C3_Witness ==
    \E e \in Entities :
        /\ removed[e] /\ tasks[e] # <<>>
        /\ tasks[e][Len(tasks[e])].cin = "sleeping"
        /\ WritesBy(e, writes) = <<>>

\* C4: of the debounce tasks an entity created, only the latest (the one in
\* _debounce_task) can be neither finished nor cancelled.
C4_AtMostOneLive ==
    \A e \in Entities : \A i \in DOMAIN tasks[e] :
        Live(tasks[e][i]) => i = Len(tasks[e])
\* a finished task, a task cancelled in its POST, and the live latest one
C4_Witness ==
    \E e \in Entities :
        /\ Len(tasks[e]) = 3 /\ Live(tasks[e][3])
        /\ tasks[e][1].st = "done"
        /\ tasks[e][2].st = "cancelled" /\ tasks[e][2].cin = "post"


\* C5 as stated: a debounced write that completed carried the last proposed
\* value and was followed by a coordinator refresh request.
C5_RefreshFollowsWrite ==
    \A e \in Debounced :
        outcome[e] = "ok" =>
            LET ws == WritesBy(e, writes) IN
            /\ ws # <<>> /\ ws[Len(ws)].val = lastProposed[e][1]
            /\ refreshReqs >= 1

C6_NoRetry ==
    \A e \in Debounced : outcome[e] = "err" => \A i \in DOMAIN tasks[e] : ~Live(tasks[e][i])
C6_FailureSwallowed ==
    \A e \in Debounced : \A i \in DOMAIN tasks[e] :
        (tasks[e][i].st \in {"get", "post"} /\ outcome[e] # "err" /\ outcome'[e] = "err") =>
            /\ tasks'[e] = [tasks[e] EXCEPT ![i].st = "done"]
            /\ value' = value /\ pending' = pending /\ writes' = writes
C6_ValueKept ==
    \A e \in Entities :
        value'[e] # value[e] =>
            \/ Len(tasks'[e]) > Len(tasks[e])
            \/ tasks' = tasks /\ writes' = writes /\ pending' = pending
\* C6: when the read or the POST of a debounced write fails, the task ends
\* normally, the stored and pending values and the write log are untouched,
\* no task of the entity is left to try again, and the stored value changes
\* only by a new proposal or by a coordinator update.
C6_FailedWrite == [](C6_NoRetry) /\ [][C6_FailureSwallowed /\ C6_ValueKept]_vars
\* the POST of the latest task failed; the entity still shows the proposed value
C6_Witness ==
    \E e \in Debounced :
        /\ outcome[e] = "err"
        /\ \E k \in DOMAIN writes : writes[k].by = e /\ writes[k].task = Len(tasks[e])
        /\ value[e] = <<lastProposed[e][1]>>

PostedItems(b) == IF Has(b, "settings") /\ b.settings.t = "list" THEN b.settings.v ELSE <<>>
\* entry.power[k], <<>> when the entry has none
PowerField(entry, k) ==
    IF Has(entry, "power") /\ Has(entry.power, k) THEN <<entry.power[k]>> ELSE <<>>
\* the powers of the manual-mode entries (id 1) of one profile
ManualPowers(entry) ==
    {IF Has(ModesOf(entry)[m], "power") THEN ModesOf(entry)[m].power ELSE 0 - 1 :
        m \in {n \in DOMAIN ModesOf(entry) : ModesOf(entry)[n].id = 1}}
\* the post writes max power
IsMaxPowerPost(p) == p.by \in {"maxp", "max_power"} \/ (p.by = "client" /\ call.path = "maxPower")
\* one profile entry carries the field the post p patched, with the written value
CarriesPatch(p, entry) ==
    CASE IsMaxPowerPost(p) -> PowerField(entry, "max") = <<p.req>>
      [] p.by \in {"temp", "boost"} -> PowerField(entry, SettingKeyOf(p.by)) = <<p.req>>
      [] p.by = "temperatures" ->
            /\ Given(call.a) => PowerField(entry, "targetTemperature") = <<ClampSvcTemp(call.a[1])>>
            /\ Given(call.b) => PowerField(entry, "targetTemperatureBoost") = <<ClampSvcTemp(call.b[1])>>
      [] p.by \in {"switch", "client"} -> PowerField(entry, call.path) = <<p.req>>
      [] OTHER -> ManualPowers(entry) = {p.req}
DevicePosts == {"temp", "boost", "maxp", "manual", "max_power", "temperatures",
                "manual_power", "switch", "client"}

\* C8 as stated: in every posted device record the patched field has the
\* written value in every settings[] entry, and a max-power write also has
\* it in root power.maxPower.
C8_Mirrored ==
    (lastPost # <<>> /\ lastPost[1].by \in DevicePosts) =>
        LET p == lastPost[1] IN
        /\ IsMaxPowerPost(p) => PowerField(p.body, "maxPower") = <<p.req>>
        /\ \A i \in DOMAIN PostedItems(p.body) : CarriesPatch(p, PostedItems(p.body)[i])

\* the service call's value argument(s) ask for a change
ValueGiven(c) == IF c.svc = "temperatures" THEN Given(c.a) \/ Given(c.b) ELSE c.a # None
\* the snapshot holds the device the service helper is about to patch, and
\* that record has no settings entries
ServiceTargetBare(c, snap) ==
    \E k \in DOMAIN snap.devices :
        /\ snap.devices[k].deviceType = (IF c.svc = "manual_power" THEN "4" ELSE "1")
        /\ snap.devices[k].common.id = Head(c.ids)
        /\ ItemsOrNone(snap.devices[k]) = <<>>
EntityTargetBare(e, snap) ==
    \E k \in DOMAIN snap.devices :
        /\ snap.devices[k].deviceType = DeviceTypeOf(e)
        /\ snap.devices[k].common.id = DeviceIdOf(e)
        /\ ItemsOrNone(snap.devices[k]) = <<>>
C9_PostedHasTwo ==
    (lastPost # <<>> /\ lastPost[1].by \in DevicePosts /\ ItemsOrNone(lastPost[1].from[1]) = <<>>) =>
        LET p == lastPost[1] IN
        /\ Len(PostedItems(p.body)) = 2
        /\ \A i \in DOMAIN PostedItems(p.body) : CarriesPatch(p, PostedItems(p.body)[i])
C9_AlwaysPosts ==
    /\ \A e \in DeviceEntities : \A i \in DOMAIN tasks[e] :
            (FiredNow(e, i) /\ EntityTargetBare(e, data)) => Len(writes') = Len(writes) + 1
    /\ (call.ph = "run" /\ call.ids # <<>> /\ call' # call
            /\ ValueGiven(call) /\ ServiceTargetBare(call, data)) => Len(writes') = Len(writes) + 1
\* C9 as stated: on every settings-patching write path a located record
\* whose settings is empty or missing is posted with exactly two synthesized
\* entries, both carrying the patched field.
C9_Synthesis == [](C9_PostedHasTwo) /\ [][C9_AlwaysPosts]_vars

C10_Posted ==
    (lastPost # <<>> /\ lastPost[1].by \in {"maxp", "max_power"}) =>
        LET p == lastPost[1]
            req == IF p.by = "maxp" THEN PyRound(lastProposed["maxp"][2]) ELSE call.a[1]
            written == PowerField(p.body, "maxPower")
        IN /\ written # <<>> /\ written[1] >= 100 /\ written[1] <= 3500
           /\ req > 3500 => written = <<3500>>
           /\ req < 100 => written = <<100>>
           /\ ItemsOrNone(p.from[1]) = <<>> =>
                 /\ Len(PostedItems(p.body)) = 2
                 /\ \A i \in {1, 2} : PowerField(PostedItems(p.body)[i], "max") = written
C10_ExactlyOne ==
    /\ (call.svc = "max_power" /\ call.ph = "run" /\ call.ids # <<>> /\ call' # call
            /\ \E k \in DOMAIN data.devices :
                   data.devices[k].deviceType = "1" /\ data.devices[k].common.id = Head(call.ids))
          => Len(writes') = Len(writes) + 1 /\ lastPost' # <<>>
    /\ \A i \in DOMAIN tasks["maxp"] :
          (FiredNow("maxp", i) /\ Locatable("maxp", data))
          => Len(writes') = Len(writes) + 1 /\ lastPost' # <<>>
\* C10: the max-power patch (the service helper or the number entity) on a
\* located type-1 record posts exactly one record whose power.maxPower is the
\* request clamped to 100..3500 (3500 for anything above, 100 for anything
\* below); when the record had no settings entries the posted one has exactly
\* two, each with power.max equal to power.maxPower.
C10_EndToEnd == [](C10_Posted) /\ [][C10_ExactlyOne]_vars
\* the service asked for 5000 on device 24 with empty settings: one record
\* with 3500 in the root and in two new entries is in flight
C10_Witness ==
    /\ lastPost # <<>> /\ lastPost[1].by = "max_power"
    /\ call.a = <<5000>> /\ call.ids = <<24>>
    /\ lastPost[1].from = <<Boiler(3000, JList(<<>>))>>
    /\ lastPost[1].body.power.maxPower = 3500
    /\ lastPost[1].body.settings = JList(<<[power |-> [max |-> 3500]], [power |-> [max |-> 3500]]>>)
    /\ Len(writes) = 1

\* ------------------------------------------------ properties of the helpers
\* the scalar leaves of a JSON value, each named by the child indexes that
\* lead to it
RECURSIVE Positions(_)
Positions(x) ==
    CASE IsDict(x) -> UNION {{<<i>> \o p : p \in Positions(x.kv[i].c)} : i \in DOMAIN x.kv}
      [] IsList(x) -> UNION {{<<i>> \o p : p \in Positions(x.items[i])} : i \in DOMAIN x.items}
      [] OTHER     -> {<<>>}
\* p comes before q in a pre-order depth-first walk
Before(p, q) ==
    \E n \in 1..Len(p) :
        /\ n <= Len(q) /\ p[n] < q[n]
        /\ \A m \in 1..(n - 1) : p[m] = q[m]
\* the leaf number n of the walk
NthPosition(x, n) ==
    CHOOSE p \in Positions(x) : Cardinality({q \in Positions(x) : Before(q, p)}) = n - 1
\* the dotted path and the value of the leaf at p
RECURSIVE PathOf(_, _, _)
PathOf(x, p, at) ==
    IF p = <<>> THEN at
    ELSE IF IsDict(x) THEN PathOf(x.kv[p[1]].c, Tail(p), Joined(at, x.kv[p[1]].k))
    ELSE PathOf(x.items[p[1]], Tail(p), Joined(at, ToString(p[1] - 1)))
RECURSIVE LeafAt(_, _)
LeafAt(x, p) ==
    IF p = <<>> THEN x.s
    ELSE IF IsDict(x) THEN LeafAt(x.kv[p[1]].c, Tail(p)) ELSE LeafAt(x.items[p[1]], Tail(p))
\* one pair per scalar leaf, in walk order
LeafPairs(x, base) ==
    [n \in 1..Cardinality(Positions(x)) |->
        [path |-> PathOf(x, NthPosition(x, n), base), value |-> LeafAt(x, NthPosition(x, n))]]

\* C11: whatever the four reads of a refresh yield (an exception, a body of
\* the wrong type, the expected document), async_get_all_data returns a
\* snapshot with master_data (a list), devices (a list) and settings (a
\* mapping); a section whose read failed is empty, a section whose read
\* succeeded is there in full: all "power." pairs, then all "status." pairs,
\* the device list, the settings document.
C11_PartialRefresh ==
    probe.op = "refresh" =>
        LET out == probe.out
            rd == probe.rDevices
        IN /\ DOMAIN out = {"master_data", "devices", "settings"}
           /\ IsList(out.devices) /\ IsDict(out.settings)
           /\ out.master_data =
                 (IF IsDict(probe.rPower) THEN LeafPairs(probe.rPower, "power") ELSE <<>>)
                 \o (IF IsDict(probe.rStatus) THEN LeafPairs(probe.rStatus, "status") ELSE <<>>)
           /\ out.devices =
                 (IF IsList(rd) THEN rd
                  ELSE IF IsDict(rd) /\ HasKey(rd, "devices") /\ IsList(Member(rd, "devices"))
                       THEN Member(rd, "devices") ELSE Arr(<<>>))
           /\ out.settings = (IF IsDict(probe.rSettings) THEN probe.rSettings ELSE Map(<<>>))
\* the status read raised, the other three returned their documents: no
\* status pair, every power pair, the devices and the settings
C11_Witness ==
    /\ probe.op = "refresh"
    /\ probe.rStatus = Exc /\ probe.rPower = PowerBody
    /\ probe.rDevices = DeviceBody /\ probe.rSettings = SettingsBody
    /\ Len(probe.out.master_data) = 4
    /\ probe.out.master_data[1] = [path |-> "power.input.power.0.value", value |-> "120"]
    /\ probe.out.master_data[4] = [path |-> "power.output.energy.1", value |-> "2"]
    /\ probe.out.devices = DeviceBody /\ probe.out.settings = SettingsBody

\* the ceiling the lookup table of the specification gives a rating
TabulatedCeiling(n) ==
    CASE n = 10 -> 2300 [] n = 16 -> 3700 [] n = 24 -> 5500 [] n = 32 -> 7400 [] OTHER -> 7400
\* C12 as stated: the number entity and the service both compute 2300, 3700,
\* 5500, 7400 for the ratings 10, 16, 24, 32 and 7400 for every other, absent
\* or non-numeric circuitBreaker, and neither computation raises.
C12_BreakerCeiling ==
    probe.op = "breaker" =>
        LET want == IF IntOf(probe.raw) = <<>> THEN 7400 ELSE TabulatedCeiling(IntOf(probe.raw)[1])
        IN /\ probe.entity = want
           /\ probe.service.res = "ok" /\ probe.service.limit = want

\* v lies in lo..hi and on the grid lo, lo + step, ...
OnGrid(v, lo, hi, step) == v >= lo /\ v <= hi /\ (v - lo) % step = 0
\* the rated ceiling of the charger record a post was built from
CeilingOf(dev) ==
    IF Has(dev, "charge") /\ Has(dev.charge, "circuitBreaker")
    THEN TabulatedCeiling(dev.charge.circuitBreaker) ELSE 7400
\* every value the post p wrote into entry lies in its field's range and grid
EntryInRange(p, entry) ==
    CASE p.by \in {"temp", "boost"} ->
            \A v \in {PowerField(entry, SettingKeyOf(p.by))} : v # <<>> /\ OnGrid(v[1], 20, 85, 5)
      [] p.by = "temperatures" ->
            /\ Given(call.a) => OnGrid(PowerField(entry, "targetTemperature")[1], 20, 85, 5)
            /\ Given(call.b) => OnGrid(PowerField(entry, "targetTemperatureBoost")[1], 20, 85, 5)
      [] p.by \in {"maxp", "max_power"} ->
            \A v \in {PowerField(entry, "max")} : v # <<>> /\ OnGrid(v[1], 100, 3500, 25)
      [] OTHER ->
            \A w \in ManualPowers(entry) : OnGrid(w, 1400, CeilingOf(p.from[1]), 100)
RangedPosts == {"temp", "boost", "maxp", "manual", "max_power", "temperatures", "manual_power"}
\* C13 as stated: every value a number entity or a service helper writes to
\* a device lies in its field's range and on its step grid (temperature
\* 20..85 step 5, max power 100..3500 step 25, manual power 1400..ceiling
\* step 100).
C13_RangeAndStep ==
    (lastPost # <<>> /\ lastPost[1].by \in RangedPosts) =>
        LET p == lastPost[1] IN
        /\ p.by \in {"maxp", "max_power"} =>
              OnGrid(PowerField(p.body, "maxPower")[1], 100, 3500, 25)
        /\ \A i \in DOMAIN PostedItems(p.body) : EntryInRange(p, PostedItems(p.body)[i])
\* the keys of the settings document the appliance holds
ApplianceKeys == DOMAIN MasterDoc(0)
\* C14 as stated: the body of a master write is the complete settings
\* document with regulation.target_power_w set to the clamped request and
\* every other key unchanged; a document missing a key of the appliance's
\* settings is never posted, whatever the preceding settings read returned.
C14_WholeDocument ==
    (lastPost # <<>> /\ lastPost[1].by = "master") =>
        LET body == lastPost[1].body IN
        /\ ApplianceKeys \subseteq DOMAIN body
        /\ body.regulation.target_power_w = ClampMaster(lastPost[1].req)
        /\ \A w \in {body.regulation.target_power_w} : body = MasterDoc(w)
\* the entry a lookup selected is a mapping of the requested identity
SelectedIs(dev, type, req) ==
    /\ dev.k = "dict" /\ StrOf(dev.deviceType) = type
    /\ dev.common.k = "dict" /\ IntOf(dev.common.id) # <<>> /\ IntOf(dev.common.id) = IntOf(req)
\* C15 as stated: whatever locator selects a record for a read or a write,
\* the record has the device type of the entity or service and the common.id
\* asked for; a record of another type that shares the id is never used.
C15_PairIdentity ==
    (probe.op = "locate" /\ probe.idx > 0) =>
        SelectedIs(probe.devs[probe.idx], probe.type, probe.req)
\* the first entry of the roster that is the requested device, 0 when none
RECURSIVE ExpectedFrom(_, _, _, _)
ExpectedFrom(devs, i, type, req) ==
    IF i > Len(devs) THEN 0
    ELSE IF SelectedIs(devs[i], type, req) THEN i
    ELSE ExpectedFrom(devs, i + 1, type, req)
\* C16 as stated: every locator compares the ids after casting both to
\* integers and the device types as strings, skips an entry that is no
\* mapping, has no or a null common or a non-numeric id, never raises, and
\* returns the first matching entry of the roster or nothing.
C16_CoerceAndCompare ==
    probe.op = "locate" => probe.idx = ExpectedFrom(probe.devs, 1, probe.type, probe.req)
\* the device type a service addresses
ServiceType(svc) == IF svc = "manual_power" THEN "4" ELSE "1"
\* in this step a service helper looks its device id up and does not find it
UnresolvedService ==
    /\ call.svc \in {"max_power", "temperatures", "manual_power"}
    /\ call.ph = "run" /\ call.ids # <<>>
    /\ call.svc # "temperatures" => call.a # None
    /\ FindDeviceForService(data, ServiceType(call.svc), Head(call.ids)) = 0
    /\ ServiceStep
\* in this step the switch's client call reads a roster without its device
UnresolvedSwitch ==
    /\ call.svc = "switch" /\ call.ph = "get"
    /\ \E roster \in Rosters : ScanFrom(roster, 1, "1", Head(call.ids)) = 0 /\ DevicesRead(roster)
\* C17 as stated: when a service or the block-solar-heating switch does not
\* find its target device in the roster, no network write is issued and the
\* operation ends in a failure raised to the caller.
C17_Unresolvable ==
    [][(UnresolvedService \/ UnresolvedSwitch) => (writes' = writes /\ call'.ph = "raised")]_vars
\* x is a value int() cannot convert (None stands for "not given")
NonCoercible(x) == x # PNone /\ IntOf(x) = <<>>
\* C18 as stated: a write path handed a value that cannot be converted to
\* an integer issues no write and ends in a failure raised to the user.
C18_NonCoercible ==
    (probe.op = "write" /\ (NonCoercible(probe.raw) \/ NonCoercible(probe.raw2))) =>
        probe.out.res = "raise"
\* the path resolves in d: every segment is a key of the mapping reached
RECURSIVE Resolves(_, _)
Resolves(d, segs) ==
    segs = <<>> \/ (IsDict(d) /\ HasKey(d, Head(segs)) /\ Resolves(Member(d, Head(segs)), Tail(segs)))
\* the value at a path that resolves
RECURSIVE At(_, _)
At(d, segs) == IF segs = <<>> THEN d ELSE At(Member(d, Head(segs)), Tail(segs))
\* the places a read looks in, in order: the payload, then its fallback roots
\* that are mappings
Places(payload, roots) ==
    <<payload>> \o [i \in DOMAIN roots |->
                      IF HasKey(payload, roots[i]) /\ IsDict(Member(payload, roots[i]))
                      THEN Member(payload, roots[i]) ELSE Leaf("0")]
\* C19 as stated: the value at the first place, in the order top level,
\* status, power (settings, extra roots), where the path resolves is
\* returned, a null included; if it resolves nowhere the result is None.
C19_TopLevelWins ==
    (probe.op = "get_value" /\ IsDict(probe.payload)) =>
        LET places == Places(probe.payload, probe.roots)
            hits == {j \in DOMAIN places : Resolves(places[j], probe.path)}
        IN IF hits = {} THEN probe.out = NoneValue
           ELSE probe.out = At(places[CHOOSE j \in hits : \A k \in hits : j <= k], probe.path)
\* C19, amended: a null counts as absent; the value returned is the first
\* non-null value the path resolves to, in the order top level, status,
\* power (settings, extra roots), and None when there is none or the
\* payload is no mapping.
C19_FallbackOrder ==
    probe.op = "get_value" =>
        IF ~IsDict(probe.payload) THEN probe.out = NoneValue
        ELSE LET places == Places(probe.payload, probe.roots)
                 hits == {j \in DOMAIN places :
                            Resolves(places[j], probe.path) /\ At(places[j], probe.path) # NoneValue}
             IN IF hits = {} THEN probe.out = NoneValue
                ELSE probe.out = At(places[CHOOSE j \in hits : \A k \in hits : j <= k], probe.path)
\* a null at top level, the path under status and under power: status supplies the value
C19_Witness ==
    /\ probe.op = "get_value" /\ probe.path = <<"x">> /\ IsDict(probe.payload)
    /\ HasKey(probe.payload, "x") /\ Member(probe.payload, "x") = NoneValue
    /\ HasKey(probe.payload, "status") /\ HasKey(probe.payload, "power")
    /\ probe.out = Leaf("2")
\* C20: _flatten and _flatten_device emit exactly one (path, value) pair per
\* scalar leaf (null included), as many pairs as there are leaves, in the
\* order of a pre-order depth-first walk with keys in source order and
\* elements by index, each path being the dotted keys and 0-based indexes
\* that lead to the leaf.
C20_FlattenComplete ==
    probe.op \in {"flatten", "flatten_device"} =>
        /\ probe.out = LeafPairs(probe.obj, probe.base)
        /\ Len(probe.out) = Cardinality(Positions(probe.obj))
\* a nested document with a null leaf inside a list inside a mapping was flattened
C20_Witness ==
    /\ probe.op = "flatten" /\ probe.obj \in Deep /\ IsDict(probe.obj)
    /\ Len(probe.out) = 7
    /\ probe.out[7] = [path |-> "power.input.0.power.2", value |-> "null"]
\* a document some key of which contains the separator
RECURSIVE HasDottedKey(_)
HasDottedKey(x) ==
    CASE IsDict(x) -> \E i \in DOMAIN x.kv : x.kv[i].k = "a.b" \/ HasDottedKey(x.kv[i].c)
      [] IsList(x) -> \E i \in DOMAIN x.items : HasDottedKey(x.items[i])
      [] OTHER     -> FALSE
\* what re-nesting by the paths can tell of a document: a sequence reads as a
\* mapping keyed by its indexes, and a member without any leaf is not there
RECURSIVE Nested(_)
Nested(x) ==
    LET kept(kv) == SelectSeq(kv, LAMBDA m : m.c # Map(<<>>)) IN
    CASE IsDict(x) -> Map(kept([i \in DOMAIN x.kv |-> KV(x.kv[i].k, Nested(x.kv[i].c))]))
      [] IsList(x) -> Map(kept([i \in DOMAIN x.items |-> KV(ToString(i - 1), Nested(x.items[i]))]))
      [] OTHER     -> x
\* C21 as stated: two structurally different documents never flatten to the
\* same sequence (so that re-nesting the pairs gives the document back).
C21_RoundTrip ==
    probe.op = "flatten" =>
        \A d \in Docs : Flatten(d, probe.base) = probe.out => d = probe.obj
\* C21, amended: two documents without a "." in a key flatten to the same
\* sequence only if they agree once sequences are read as mappings keyed by
\* index and members without a leaf are dropped.
C21_RoundTripNested ==
    (probe.op = "flatten" /\ ~HasDottedKey(probe.obj)) =>
        \A d \in Docs :
            (~HasDottedKey(d) /\ Flatten(d, probe.base) = probe.out) => Nested(d) = Nested(probe.obj)
\* a sequence was flattened to the same pairs as a mapping keyed "0"
C21_Witness ==
    /\ probe.op = "flatten" /\ probe.obj = Arr(<<Leaf("1")>>)
    /\ probe.out = Flatten(Map(<<KV("0", Leaf("1"))>>), probe.base)
    /\ Len(probe.out) = 1
\* the switch commands, and those of device-level switches
Toggles == BoostSwitches \cup {"switch"}
DeviceToggles == {"boost_1", "boost_4", "switch"}
\* C22 as stated: a switch command makes exactly one write attempt and, for
\* every outcome of the write, exactly one refresh request; a device-level
\* switch requests the refresh only after its settle delay.
C22_Counts ==
    (call.svc \in Toggles /\ call.ph \in {"done", "raised"}) =>
        (Len(writes) = call.w0 + 1 /\ refreshReqs = call.r0 + 1)
C22_Settled ==
    (call.svc \in DeviceToggles /\ refreshReqs' # refreshReqs) => call.ph = "settle"
C22_ImmediateToggle == [](C22_Counts) /\ [][C22_Settled]_vars
\* h halves rounded to an integer, a half going away from zero
RoundHalfAway(h) == IF h >= 0 THEN (h + 1) \div 2 ELSE 0 - ((1 - h) \div 2)
\* the value the entity e stores for input h when halves go away from zero
StoredHalfAway(e, h, snap) ==
    CASE e = "master" -> ClampMaster(RoundHalfAway(h))
      [] e = "maxp"   -> ClampMaxPower(RoundHalfAway(h))
      [] e = "manual" -> ClampManual(RoundHalfAway(h), GetBreakerLimit(FindDeviceFromCoordinator(snap, e)))
      [] OTHER        -> ClampTemp(RoundHalfAway(h))
\* C23 as stated: a write path handed a non-integer value stores (the
\* entities, after clamping) or writes (the client setter) the integer
\* obtained by rounding half away from zero.
C23_Stored ==
    \A e \in DeviceEntities \cup {"master"} :
        lastProposed'[e] # lastProposed[e] =>
            lastProposed'[e][1] = StoredHalfAway(e, lastProposed'[e][2], data)
C23_Written ==
    (call.svc = "client" /\ call.ph = "get" /\ call'.ph = "post") =>
        lastPost'[1].req = RoundHalfAway(call.a[1])
C23_HalfAwayFromZero == [][C23_Stored /\ C23_Written]_vars

\* the snapshot holds a number for the field e reads: its first roster entry
\* of e's type and id has a non-empty settings list whose first profile
\* carries the field (the maximum-power entity reads the device's own record)
Carries(e, snap) ==
    \E i \in 1..Len(snap.devices) :
        LET d == snap.devices[i] IN
        /\ d.deviceType = DeviceTypeOf(e) /\ d.common.id = DeviceIdOf(e)
        /\ \A j \in 1..(i - 1) : ~(/\ snap.devices[j].deviceType = DeviceTypeOf(e)
                                   /\ snap.devices[j].common.id = DeviceIdOf(e))
        /\ IF e = "maxp" THEN "maxPower" \in DOMAIN d.power
           ELSE /\ "settings" \in DOMAIN d
                /\ d.settings.t = "list"
                /\ d.settings.v # <<>>
                /\ IF e = "manual"
                   THEN /\ "charge" \in DOMAIN d.settings.v[1]
                        /\ \E m \in 1..Len(d.settings.v[1].charge.mode) :
                              /\ d.settings.v[1].charge.mode[m].id = MANUAL_MODE_ID
                              /\ "power" \in DOMAIN d.settings.v[1].charge.mode[m]
                   ELSE SettingKeyOf(e) \in DOMAIN d.settings.v[1].power
PollStep == Poll(data')
\* a proposal to e: async_set_native_value appends a task
ProposeStep(e) == Len(tasks'[e]) > Len(tasks[e])
\* C24: a coordinator update whose snapshot lacks the entity's device, its
\* settings or its numeric field leaves the stored value, the pending value
\* and the debounce tasks as they were; outside a proposal the stored value
\* changes only on a snapshot that carries a number for the field.
C24_Kept ==
    \A e \in active \cap DeviceEntities :
        (~Carries(e, data') /\ PollStep) =>
            (value'[e] = value[e] /\ pending'[e] = pending[e] /\ tasks'[e] = tasks[e])
C24_ReplacedByNumber ==
    \A e \in active \cap DeviceEntities :
        (value'[e] # value[e] /\ ~ProposeStep(e)) => (PollStep /\ Carries(e, data'))
C24_TransientlyMissing == [][C24_Kept /\ C24_ReplacedByNumber]_vars
\* a poll without the boiler arrived while a proposal was waiting, after a
\* poll that had displaced the optimistic value
C24_Witness ==
    /\ "temp" \in active /\ data = SnapGone
    /\ pending["temp"] # None /\ value["temp"] # None /\ value["temp"] # pending["temp"]
    /\ tasks["temp"] # <<>> /\ tasks["temp"][Len(tasks["temp"])].st = "sleeping"

\* ------------------------------------------- the entities and their appliance
\* One debounced entity and the appliance it writes to: every poll reads the
\* appliance, the device stays in the roster, the entity is not removed and
\* every network call returns.  A POST reaches the appliance when it is sent.
LiveDocs == Snapshots \ {SnapGone}
InitLive ==
    /\ active \in {{e} : e \in DeviceEntities \cup {"master"}}
    /\ data \in LiveDocs
    /\ appliance = <<data>>
    /\ pending = [e \in Entities |-> None]
    /\ value = [e \in Entities |-> IF e \in active THEN UpdateFromCoordinator(e, None, data) ELSE None]
    /\ tasks = [e \in Entities |-> <<>>]
    /\ outcome = [e \in Entities |-> ""]
    /\ removed = [e \in Entities |-> FALSE]
    /\ lastProposed = [e \in Entities |-> None]
    /\ writes = <<>> /\ lastPost = <<>> /\ refreshReqs = 0
    /\ call = [svc |-> "", ids |-> <<>>, path |-> "", a |-> <<>>, b |-> <<>>, ph |-> "idle",
               all |-> <<>>, w0 |-> 0, r0 |-> 0]
    /\ calls = 0
    /\ probe = [op |-> ""]
FireLive == \E e \in Entities : \E i \in 1..MaxProposals : Fire(e, i)
GetLive == \E e \in Entities : \E i \in 1..MaxProposals : GetReturns(e, i, appliance[1].settings)
PostLive == \E e \in Entities : \E i \in 1..MaxProposals : PostReturns(e, i, TRUE)
PollLive == Poll(appliance[1])
NextLive ==
    \/ \E e \in Entities : \E h \in Inputs(e) : Propose(e, h)
    \/ FireLive
    \/ GetLive
    \/ PostLive
    \/ PollLive
\* the sleep of a task ends, a request in flight returns and the coordinator
\* polls at its interval: none of them waits forever
SpecLive ==
    /\ InitLive /\ [][NextLive]_vars
    /\ WF_vars(FireLive) /\ WF_vars(GetLive) /\ WF_vars(PostLive) /\ WF_vars(PollLive)

\* the number the documents hold for the field e shows, None when they hold none
Held(e, doc) ==
    IF e = "master"
    THEN IF "regulation" \in DOMAIN doc.settings /\ "target_power_w" \in DOMAIN doc.settings.regulation
         THEN Some(doc.settings.regulation.target_power_w) ELSE None
    ELSE IF ~Carries(e, doc) THEN None
    ELSE LET i == CHOOSE k \in 1..Len(doc.devices) :
                      /\ doc.devices[k].deviceType = DeviceTypeOf(e)
                      /\ doc.devices[k].common.id = DeviceIdOf(e)
             d == doc.devices[i]
         IN IF e = "maxp" THEN Some(d.power.maxPower)
            ELSE IF e = "manual"
            THEN LET modes == d.settings.v[1].charge.mode
                     m == CHOOSE k \in 1..Len(modes) :
                              modes[k].id = MANUAL_MODE_ID /\ "power" \in DOMAIN modes[k]
                 IN Some(modes[m].power)
            ELSE Some(d.settings.v[1].power[SettingKeyOf(e)])
\* the latest write of e carries its latest proposal
LastWritten(e) ==
    \E k \in DOMAIN writes :
        /\ writes[k].by = e /\ writes[k].val = lastProposed[e][1]
        /\ \A j \in (k + 1)..Len(writes) : writes[j].by # e
\* C25: once the proposals have stopped, with the entity in place, the device
\* in the roster and every network call returning, the last proposed clamped
\* value is eventually written and from some poll on the displayed value
\* equals the value the appliance holds.
C25_Consistent ==
    \A e \in active :
        lastProposed[e] # None =>
            (LastWritten(e) /\ appliance[1] = data /\ value[e] = Held(e, appliance[1]))
C25_EventualConsistency == <>[]C25_Consistent

\* --------------------------------------------- two entities of one device
\* Two number entities of boiler 24 and the appliance: proposals to either,
\* the fires and returns of their tasks, and polls that read the appliance.
Pairs == {{"temp", "boost"}, {"temp", "maxp"}}
InitPair ==
    /\ active \in Pairs
    /\ data \in {SnapFull, SnapEmpty}
    /\ appliance = <<data>>
    /\ pending = [e \in Entities |-> None]
    /\ value = [e \in Entities |-> IF e \in active THEN UpdateFromCoordinator(e, None, data) ELSE None]
    /\ tasks = [e \in Entities |-> <<>>]
    /\ outcome = [e \in Entities |-> ""]
    /\ removed = [e \in Entities |-> FALSE]
    /\ lastProposed = [e \in Entities |-> None]
    /\ writes = <<>> /\ lastPost = <<>> /\ refreshReqs = 0
    /\ call = [svc |-> "", ids |-> <<>>, path |-> "", a |-> <<>>, b |-> <<>>, ph |-> "idle",
               all |-> <<>>, w0 |-> 0, r0 |-> 0]
    /\ calls = 0
    /\ probe = [op |-> ""]
\* the proposals the pair has received so far
RECURSIVE Proposals(_)
Proposals(es) ==
    IF es = {} THEN 0
    ELSE LET e == CHOOSE x \in es : TRUE IN Len(tasks[e]) + Proposals(es \ {e})
NextPair ==
    \/ Proposals(active) < MaxProposals /\ \E e \in Entities : \E h \in Inputs(e) : Propose(e, h)
    \/ \E e \in Entities : \E i \in 1..MaxProposals : Fire(e, i)
    \/ \E e \in Entities : \E i \in 1..MaxProposals : PostReturns(e, i, TRUE)
    \/ Poll(appliance[1])
SpecPair == InitPair /\ [][NextPair]_vars

\* every task of e has ended and its latest write, carrying its latest
\* proposal, was answered
Completed(e) ==
    /\ lastProposed[e] # None /\ outcome[e] = "ok" /\ LastWritten(e)
    /\ \A i \in DOMAIN tasks[e] : ~Live(tasks[e][i])
\* C26: when two number entities of one device each received a proposal and
\* both writes completed, in any interleaving with polls, the appliance holds
\* the last proposed value of each.
C26_NoLostUpdate ==
    (\A e \in active : Completed(e)) =>
        \A e \in active : Held(e, appliance[1]) = Some(lastProposed[e][1])

\* the debounce window of e is open: its latest task is still in its sleep
WindowOpen(e) == tasks[e] # <<>> /\ tasks[e][Len(tasks[e])].st = "sleeping"
\* C27 as stated: from a proposal until its debounced write fires, the
\* displayed value is the clamped proposed value, coordinator updates included.
C27_OptimisticStable ==
    \A e \in active \cap (DeviceEntities \cup {"master"}) :
        WindowOpen(e) => value[e] = Some(lastProposed[e][1])
\* C27 amended: while the window is open the pending value is the clamped
\* proposed value; the displayed value is the clamped proposed value right
\* after the proposal, is replaced by what the entity reads from the snapshot
\* at each coordinator update, and changes at no other step.
C27_PendingKept ==
    \A e \in active \cap (DeviceEntities \cup {"master"}) :
        WindowOpen(e) => pending[e] = Some(lastProposed[e][1])
C27_Displayed ==
    \A e \in active \cap (DeviceEntities \cup {"master"}) :
        WindowOpen(e)' =>
            IF Len(tasks'[e]) > Len(tasks[e]) THEN value'[e] = Some(lastProposed'[e][1])
            ELSE IF PollStep THEN value'[e] = UpdateFromCoordinator(e, value[e], data')
            ELSE value'[e] = value[e]
C27_OptimisticUntilPoll == [](C27_PendingKept) /\ [][C27_Displayed]_vars
\* a coordinator update with a number for the field arrived inside the window
\* and displaced the proposed value
C27_Witness ==
    /\ "boost" \in active /\ WindowOpen("boost") /\ Carries("boost", data)
    /\ value["boost"] # Some(lastProposed["boost"][1])
    /\ pending["boost"] = Some(lastProposed["boost"][1])

\* e's roster entry is missing from the snapshot
Absent(e, snap) ==
    ~\E k \in 1..Len(snap.devices) :
        snap.devices[k].deviceType = DeviceTypeOf(e) /\ snap.devices[k].common.id = DeviceIdOf(e)
\* task i of e left its sleep in this step on its own (it was not cancelled)
Woke(e, i) ==
    /\ i \in DOMAIN tasks[e] /\ tasks[e][i].st = "sleeping"
    /\ tasks'[e][i].st \notin {"sleeping", "cancelled"}
\* C28: a debounce task that fires while the entity's device is absent from
\* the snapshot writes nothing and ends; its pending value is written by no
\* later step, polls that bring the device back included, until a new
\* proposal creates another task.
C28_FireEnds ==
    \A e \in active \cap DeviceEntities : \A i \in 1..MaxProposals :
        (Woke(e, i) /\ Absent(e, data)) =>
            (tasks'[e][i].st = "done" /\ outcome'[e] = "nodev" /\ writes' = writes /\ lastPost' = lastPost)
C28_NoLaterWrite ==
    \A e \in active \cap DeviceEntities :
        (outcome[e] = "nodev" /\ Len(tasks'[e]) = Len(tasks[e])) =>
            (writes' = writes /\ tasks'[e] = tasks[e])
C28_NoTaskLeft ==
    \A e \in active \cap DeviceEntities :
        outcome[e] = "nodev" => \A i \in DOMAIN tasks[e] : ~Live(tasks[e][i])
C28_FireWithDeviceAbsent == [](C28_NoTaskLeft) /\ [][C28_FireEnds /\ C28_NoLaterWrite]_vars
\* the task fired without its device, and a later poll brought the device
\* back while the value was still pending
C28_Witness ==
    /\ "maxp" \in active /\ outcome["maxp"] = "nodev" /\ ~Absent("maxp", data)
    /\ pending["maxp"] # None /\ writes = <<>>

\* the positions in the write log of the writes of entity e
WriteIndexes(e) == {k \in DOMAIN writes : writes[k].by = e}
\* every write of e carries the proposal that was its latest when the write
\* was issued, and a later write comes from a later proposal's task
C29_InOrder ==
    \A e \in active \cap Debounced :
        /\ \A k \in WriteIndexes(e) : writes[k].val = writes[k].want
        /\ \A k, j \in WriteIndexes(e) : k < j => writes[k].task < writes[j].task
\* a write is issued by the task of the entity's latest proposal (a task
\* cancelled in its sleep or in its settings read never writes)
C29_ByLatestTask ==
    \A e \in active \cap Debounced :
        (Len(writes') > Len(writes) /\ writes'[Len(writes')].by = e) =>
            /\ writes'[Len(writes')].task = Len(tasks[e])
            /\ writes'[Len(writes')].val = lastProposed[e][1]
\* once no task of e is left, the entity still in place, its last write
\* carries its last proposal
C29_LastCarriesLast ==
    \A e \in active \cap Debounced :
        (WriteIndexes(e) # {} /\ ~removed[e] /\ \A i \in DOMAIN tasks[e] : ~Live(tasks[e][i])) =>
            \E k \in WriteIndexes(e) :
                /\ \A j \in WriteIndexes(e) : j <= k
                /\ writes[k].val = lastProposed[e][1]
\* C29 as stated: the values written are a subsequence of the proposed
\* clamped values in their order, also across a write suspended in network
\* I/O, and the last write carries the last proposal.
C29_ProposalOrder == [](C29_InOrder /\ C29_LastCarriesLast) /\ [][C29_ByLatestTask]_vars
\* C29 amended: the last write carries the last proposal whenever the task of
\* the last proposal issued a write.
C29_LastWhenWritten ==
    \A e \in active \cap Debounced :
        \A k \in WriteIndexes(e) :
            writes[k].task = Len(tasks[e]) =>
                /\ \A j \in WriteIndexes(e) : j <= k
                /\ writes[k].val = lastProposed[e][1]
C29_OrderOfWritten == [](C29_InOrder /\ C29_LastWhenWritten) /\ [][C29_ByLatestTask]_vars
\* the master's first task was cancelled while it waited for the settings
\* read; the second proposal's task wrote, and only it
C29_Witness ==
    /\ "master" \in active /\ Len(tasks["master"]) >= 2
    /\ tasks["master"][1].st = "cancelled" /\ tasks["master"][1].cin = "get"
    /\ WriteIndexes("master") # {} /\ \A k \in WriteIndexes("master") : writes[k].task = 2
    /\ lastProposed["master"][1] = writes[Len(writes)].val

Services == {"max_power", "temperatures", "manual_power", "set_device_boost"}
\* the ids of the writes the call has issued, in order
RECURSIVE IdsWritten(_)
IdsWritten(k) == IF k > Len(writes) THEN <<>> ELSE <<writes[k].task>> \o IdsWritten(k + 1)
\* s is t with some entries left out
RECURSIVE IsSubseq(_, _)
IsSubseq(s1, s2) ==
    IF s1 = <<>> THEN TRUE
    ELSE IF s2 = <<>> THEN FALSE
    ELSE IF Head(s1) = Head(s2) THEN IsSubseq(Tail(s1), Tail(s2))
    ELSE IsSubseq(s1, Tail(s2))
\* C30: a service call that resolved to several device ids goes through all
\* of them in order, whatever happened to the earlier ones, and then requests
\* exactly one refresh.
C30_MultiDeviceComplete ==
    (call.svc \in Services /\ Len(call.all) > 1) =>
        /\ call.ph # "raised"
        /\ refreshReqs <= call.r0 + 1
        /\ IsSubseq(IdsWritten(call.w0 + 1), call.all)
        /\ call.ph = "done" => (call.ids = <<>> /\ refreshReqs = call.r0 + 1)
====
